---- MODULE Spec2Model ----
(***************************************************************************)
(* A model of osc-monitor's event feed: the /api/events route (the four    *)
(* Loki queries, the parsers, mergeAndDedup, live-poll and paginated       *)
(* mode), the Grafana query client, the metrics routes, NotificationPanel  *)
(* (its event list, its two cursors, the mute list and the notifications)  *)
(* and InstanceGraph's drill-down.                                         *)
(*                                                                         *)
(* Time is scaled.  A raw Loki timestamp is a number of "nanosecond"       *)
(* ticks; NsPerMs of them make a millisecond, MsPerSec milliseconds a      *)
(* second and DaySec seconds a day.  The code's arithmetic on them (the    *)
(* integer divisions, the 3-day chunk, the 30-day lookback) is kept.       *)
(***************************************************************************)
EXTENDS Integers, Sequences, FiniteSets, TLC

\* Scale of the time axis (the code's 1_000_000, 1000 and 86400).
NsPerMs == 2
MsPerSec == 2
DaySec == 1

\* Length bound of the event lists handed to mergeAndDedup in SpecMerge.
MaxLen == 3

DayMs == DaySec * MsPerSec

\* ------------------------------------------------------------------------
\* State
\* ------------------------------------------------------------------------
VARIABLES
    now,      \* Date.now()
    log,      \* the backend's log lines
    mIn,      \* SpecMerge: the four lists handed to mergeAndDedup
    mOut,     \* SpecMerge: its result
    mDone,    \* SpecMerge: whether mergeAndDedup has run
    sReq,     \* SpecServer: the request GET is serving
    sPc,      \* SpecServer: "start", "fetching" (inside Promise.all), "responded"
    sQ,       \* SpecServer: per query, the state of its fetch*Events promise
    sAns,     \* SpecServer: per query, how the backend answered ("" before it did)
    sResp,    \* SpecServer: the response sent
    cCall,    \* SpecQuery: the call made to the Grafana client
    cOut,     \* SpecQuery: what the call returned ("pending" before it did)
    events,              \* NotificationPanel: useState events
    hasMore,             \* useState hasMore
    loading,             \* useState loading
    loadingOlder,        \* useState loadingOlder
    error,               \* useState error (TRUE: an error text is set)
    lastEventTimeRef,    \* useRef: the live-poll cursor
    oldestEventTimeRef,  \* useRef: the backfill cursor
    rendered,            \* loadingOlder and hasMore as the fetchOlder the observer calls has captured them
    mounted,             \* whether the mount effect has called fetchInitial
    calls,               \* the fetches in flight
    overlapSeen,         \* history: the callbacks ("poll", "older") that were handed an event already listed
    pCalls,   \* SpecParse: the parser calls made so far, each with its input and its result
    gCall,    \* SpecGraph: the request a metrics route is serving and what the backend holds
    gOut,     \* SpecGraph: the response of the route ("pending" before it is sent)
    rangeCall, \* SpecRange: a range label or a number of seconds, and what rangeSeconds and stepForRange made of it
    mutedTenants,        \* NotificationPanel: useState mutedTenants
    hideInternal,        \* useState hideInternal
    isMuted,             \* useState isMuted (the audio ping is off)
    notified,            \* what the last run of pollNew's timer callback sent: the events notified, and whether it pinged
    rangeSel,            \* InstanceGraph: useState range
    soloedTenant,        \* useState soloedTenant ("" for null)
    drilldownSeries,     \* useState drilldownSeries
    loadingDrilldown,    \* useState loadingDrilldown
    ddCalls,             \* the drill-down fetches in flight
    drilldownOf          \* history: the request whose response drilldownSeries holds

worldVars == <<now, log>>
mergeVars == <<mIn, mOut, mDone>>
serverVars == <<sReq, sPc, sQ, sAns, sResp>>
queryVars == <<cCall, cOut>>
panelVars == <<events, hasMore, loading, loadingOlder, error, lastEventTimeRef,
               oldestEventTimeRef, rendered, mounted, calls, overlapSeen>>
parseVars == <<pCalls>>
graphVars == <<gCall, gOut>>
rangeVars == <<rangeCall>>
uiVars == <<mutedTenants, hideInternal, isMuted, notified>>
igVars == <<rangeSel, soloedTenant, drilldownSeries, loadingDrilldown, ddCalls, drilldownOf>>
vars == <<now, log, mIn, mOut, mDone, sReq, sPc, sQ, sAns, sResp, cCall, cOut,
          events, hasMore, loading, loadingOlder, error, lastEventTimeRef,
          oldestEventTimeRef, rendered, mounted, calls, overlapSeen,
          pCalls, gCall, gOut, rangeCall,
          mutedTenants, hideInternal, isMuted, notified,
          rangeSel, soloedTenant, drilldownSeries, loadingDrilldown, ddCalls, drilldownOf>>

\* new Date(x).getTime() of an unparseable date, and every number computed
\* from it.
NaN == -1

IsNaN(x) == x = NaN

\* A PlatformEvent (the fields the feed's logic reads).
Ev(id, type, tenant, timestamp) ==
    [id |-> id, type |-> type, tenant |-> tenant, timestamp |-> timestamp]

\* ------------------------------------------------------------------------
\* Sequence helpers (Array.prototype.filter / map / concat / sort)
\* ------------------------------------------------------------------------

RECURSIVE SelectIds(_, _)
\* s.filter(e => !ids.has(e.id))
SelectIds(s, ids) ==
    IF s = <<>> THEN <<>>
    ELSE IF Head(s).id \in ids THEN SelectIds(Tail(s), ids)
         ELSE <<Head(s)>> \o SelectIds(Tail(s), ids)

IdsOf(s) == {s[i].id : i \in DOMAIN s}

RECURSIVE InsertDesc(_, _)
\* Insert e after every element whose timestamp is >= e.timestamp: the
\* stable position of e under the comparator (a, b) => b.timestamp - a.timestamp.
InsertDesc(e, s) ==
    IF s = <<>> THEN <<e>>
    ELSE IF Head(s).timestamp >= e.timestamp
         THEN <<Head(s)>> \o InsertDesc(e, Tail(s))
         ELSE <<e>> \o s

RECURSIVE SortDescFrom(_, _)
SortDescFrom(s, acc) ==
    IF s = <<>> THEN acc
    ELSE SortDescFrom(Tail(s), InsertDesc(Head(s), acc))

\* A mergeAndDedup that leaves the concatenation in the order of the four lists.
SortDescNone(s) == s

\* all.sort((a, b) => b.timestamp - a.timestamp): stable, newest first.
SortDesc(s) == SortDescFrom(s, <<>>)

RECURSIVE DedupFrom(_, _)
DedupFrom(s, seen) ==
    IF s = <<>> THEN <<>>
    ELSE IF Head(s).id \in seen THEN DedupFrom(Tail(s), seen)
         ELSE <<Head(s)>> \o DedupFrom(Tail(s), seen \cup {Head(s).id})

\* A mergeAndDedup whose id filter keeps everything.
DedupByIdKeepAll(s) == s

\* const seen = new Set(); all.filter(e => first time e.id is met)
DedupById(s) == DedupFrom(s, {})

RECURSIVE DropSignups(_, _)
\* signupEvents.filter(e => !guiSignups.has(e.tenant))
DropSignups(s, tenants) ==
    IF s = <<>> THEN <<>>
    ELSE IF Head(s).tenant \in tenants THEN DropSignups(Tail(s), tenants)
         ELSE <<Head(s)>> \o DropSignups(Tail(s), tenants)

\* A tenant set that suppresses nothing.
GuiSignupsNone(guiEvents) == {}

GuiSignups(guiEvents) ==
    {guiEvents[i].tenant : i \in {j \in DOMAIN guiEvents : guiEvents[j].type = "tenant_signup"}}

mergeAndDedup(guiEvents, signupEvents, planEvents, mcpEvents) ==
    LET filteredSignups == DropSignups(signupEvents, GuiSignups(guiEvents))
        all == guiEvents \o filteredSignups \o planEvents \o mcpEvents
    IN  DedupById(SortDesc(all))

NoDupIds(s) == \A i, j \in DOMAIN s : s[i].id = s[j].id => i = j

\* ------------------------------------------------------------------------
\* Dates and request parameters
\* ------------------------------------------------------------------------

\* A query-string parameter.  k = "null": the parameter is absent
\* (searchParams.get gives null); "empty": present with an empty value;
\* "iso": the text toISOString produces for ms; "raw": another text that
\* Date parses to ms; "bad": a text Date cannot parse.
Param(k, ms) == [k |-> k, ms |-> ms]
NoParam == Param("null", 0)

\* if (sinceParam), beforeParam ? ... : ...
Truthy(p) == p.k \notin {"null", "empty"}

\* new Date(p).getTime()
ParseDate(p) == IF p.k \in {"iso", "raw"} THEN p.ms ELSE NaN

\* new Date(ms).toISOString(), for a valid ms (it throws a RangeError on NaN).
toISOString(ms) == Param("iso", ms)

\* Math.floor(ms / 1000)
ToSec(ms) == IF IsNaN(ms) THEN NaN ELSE ms \div MsPerSec

\* JavaScript numbers are doubles: an integer below MaxSafe (the code's 2^53)
\* is exact, above it only the multiples of Ulp are numbers.
MaxSafe == 2^10

RECURSIVE Ulp(_)
Ulp(n) == IF n < MaxSafe THEN 1 ELSE 2 * Ulp(n \div 2)

\* n rounded to the nearest multiple of u, a tie to the even multiple.
RoundTo(n, u) ==
    LET lo == (n \div u) * u
        r == n - lo
    IN  IF 2 * r < u THEN lo
        ELSE IF 2 * r > u THEN lo + u
        ELSE IF (lo \div u) % 2 = 0 THEN lo ELSE lo + u

\* parseInt(ts, 10): the double nearest to the decimal integer ts.
parseInt10(ts) == RoundTo(ts, Ulp(ts))

RECURSIVE FracSteps(_)
\* How many doubles lie in one unit above the integer n < MaxSafe.
FracSteps(n) == IF 2 * n >= MaxSafe \/ n = 0 THEN 1 ELSE 2 * FracSteps(2 * n)

\* Math.floor(x / d) for doubles x >= 0 and d > 0: the quotient is rounded to
\* the nearest double before the floor is taken.
FloorDiv(x, d) ==
    LET ip == x \div d
        r == x % d
        f == FracSteps(ip)
    IN  IF ip >= MaxSafe THEN RoundTo(ip, Ulp(ip))
        ELSE IF 2 * f * (d - r) < d THEN ip + 1
        ELSE IF 2 * f * (d - r) = d /\ (f > 1 \/ ip % 2 = 1) THEN ip + 1
        ELSE ip

\* Math.floor(parseInt(ts, 10) / 1_000_000)
NsToMs(ts) == FloorDiv(parseInt10(ts), NsPerMs)

CHUNK_MS == 3 * DayMs
MAX_HISTORY_MS == 30 * DayMs

\* ------------------------------------------------------------------------
\* Log lines and the four parsers
\* ------------------------------------------------------------------------

\* A log line of the backend.  q: the query that matches it; ts: its raw
\* timestamp; who: the customer= token, the email= value, the id= value or
\* the JSON tenantId ("" when the line has none); act: the audit verb or the
\* JSON action ("" when absent); res: the resource; ok: the JSON value of the
\* success field (see JsTruthy); fmt: "ok", "nomsg" (no msg=" field) or
\* "badjson".
Line(q, ts, who, act, res, ok, fmt) ==
    [q |-> q, ts |-> ts, who |-> who, act |-> act, res |-> res, ok |-> ok, fmt |-> fmt]

Queries == {"gui", "signup", "plan", "mcp"}

\* An id that also holds how many parser calls were made before.
makeIdCounted(ts, tenant, type) ==
    ToString(ts) \o "-" \o tenant \o "-" \o type \o "-" \o ToString(Len(pCalls))

\* `${ts}-${tenant}-${type}`
makeId(ts, tenant, type) == ToString(ts) \o "-" \o tenant \o "-" \o type

\* A switch whose default branch makes an event of type 'other'.
GuiKindAny(action) == <<"other", "other">>

GuiKind(action) ==
    CASE action = "create:instance"  -> <<"create_instance", "instance_created">>
      [] action = "delete:instance"  -> <<"delete_instance", "instance_removed">>
      [] action = "restart:instance" -> <<"restart_instance", "instance_restarted">>
      [] action = "create:tenant"    -> <<"create_tenant", "tenant_signup">>
      [] action = "deploy:solution"  -> <<"deploy_solution", "solution_deployed">>
      [] action = "delete:solution"  -> <<"delete_solution", "solution_destroyed">>
      [] OTHER -> <<>>

\* The text of an audit line as its blank-separated tokens.  A token is a
\* bare word (key = "") or key=val; val = "" is a key= with nothing behind it.
Tok(key, val) == [key |-> key, val |-> val]
Word(w) == Tok("", w)

TokText(t) == IF t.key = "" THEN t.val ELSE t.key \o "=" \o t.val

\* line.match(/customer=(\S+)/): the value of the first customer= token that
\* has one, "" when there is no match.
CustomerMatch(text) ==
    LET hits == {i \in DOMAIN text : text[i].key = "customer" /\ text[i].val # ""}
    IN  IF hits = {} THEN ""
        ELSE text[CHOOSE i \in hits : \A j \in hits : i <= j].val

\* line.match(/action (\S+) on resource (\S+)/): the verb and the resource of
\* the first place where the phrase stands, <<>> when there is no match.
ActionMatch(text) ==
    LET hits == {i \in DOMAIN text :
                    /\ i + 4 <= Len(text)
                    /\ text[i] = Word("action")
                    /\ text[i + 2] = Word("on")
                    /\ text[i + 3] = Word("resource")}
    IN  IF hits = {} THEN <<>>
        ELSE LET i == CHOOSE k \in hits : \A j \in hits : k <= j
             IN  <<TokText(text[i + 1]), TokText(text[i + 4])>>

\* What the two regular expressions of parseGUIAuditLine find in a line.
AuditFields(ts, text) ==
    Line("gui", ts, CustomerMatch(text),
         IF ActionMatch(text) = <<>> THEN "" ELSE ActionMatch(text)[1],
         IF ActionMatch(text) = <<>> THEN "" ELSE ActionMatch(text)[2],
         "absent", "ok")

\* The parsers return <<>> for null and <<event>> for an event.
parseGUIAuditLine(ts, line) ==
    IF line.who = "" \/ line.act = "" THEN <<>>
    ELSE IF GuiKind(line.act) = <<>> THEN <<>>
    ELSE <<Ev(makeId(ts, line.who, GuiKind(line.act)[1]), GuiKind(line.act)[2],
              line.who, NsToMs(ts))>>

\* The JSON values a success field is given here: true, false, the field
\* missing, null, the numbers 1 and 0, the string "false" and the empty string.
JsonValues == {"true", "false", "absent", "null", "one", "zero", "str_false", "str_empty"}

\* !data.success is false for these (JavaScript truthiness).
JsTruthy(v) == v \in {"true", "one", "str_false"}

MCP_WRITE_ACTIONS ==
    {"create-database", "create-service-instance", "delete-service-instance",
     "restart-service-instance", "create-my-app", "delete-my-app", "restart-my-app",
     "deploy-solution", "remove-deployed-solution"}

McpKind(action) ==
    CASE action = "create-database"          -> <<"mcp_create_db", "instance_created">>
      [] action = "create-service-instance"  -> <<"mcp_create_instance", "instance_created">>
      [] action = "delete-service-instance"  -> <<"mcp_delete_instance", "instance_removed">>
      [] action = "restart-service-instance" -> <<"mcp_restart_instance", "instance_restarted">>
      [] action = "create-my-app"            -> <<"mcp_create_app", "instance_created">>
      [] action = "delete-my-app"            -> <<"mcp_delete_app", "instance_removed">>
      [] action = "restart-my-app"           -> <<"mcp_restart_app", "instance_restarted">>
      [] action = "deploy-solution"          -> <<"mcp_deploy_solution", "solution_deployed">>
      [] action = "remove-deployed-solution" -> <<"mcp_remove_solution", "solution_destroyed">>
      [] OTHER -> <<>>

parseMCPAuditLine(ts, line) ==
    IF line.fmt # "ok" THEN <<>>
    ELSE IF line.act = "" \/ line.act \notin MCP_WRITE_ACTIONS \/ ~JsTruthy(line.ok) THEN <<>>
    ELSE LET tenant == IF line.who = "" THEN "unknown" ELSE line.who
         IN  <<Ev(makeId(ts, tenant, McpKind(line.act)[1]), McpKind(line.act)[2],
                  tenant, NsToMs(ts))>>

RECURSIVE ParseAll(_, _)
\* for (const [ts, line] of stream.values) { const event = parse(ts, line); if (event) events.push(event) }
ParseAll(lines, q) ==
    IF lines = <<>> THEN <<>>
    ELSE (IF q = "gui" THEN parseGUIAuditLine(Head(lines).ts, Head(lines))
          ELSE parseMCPAuditLine(Head(lines).ts, Head(lines)))
         \o ParseAll(Tail(lines), q)

RECURSIVE SignupsFrom(_, _)
\* The loop of fetchSignupEvents with its `seen` set of emails.
SignupsFrom(lines, seen) ==
    IF lines = <<>> THEN <<>>
    ELSE LET l == Head(lines)
         IN  IF l.who # "" /\ l.who \notin seen
             THEN <<Ev(makeId(l.ts, l.who, "signup"), "tenant_signup", l.who, NsToMs(l.ts))>>
                  \o SignupsFrom(Tail(lines), seen \cup {l.who})
             ELSE SignupsFrom(Tail(lines), seen)

RECURSIVE PlanChangesFrom(_)
\* The loop of fetchPlanChangeEvents: every line is an event.
PlanChangesFrom(lines) ==
    IF lines = <<>> THEN <<>>
    ELSE LET l == Head(lines)
             requestId == IF l.who = "" THEN ToString(l.ts) ELSE l.who
         IN  <<Ev(makeId(l.ts, requestId, "plan_change"), "plan_upgrade", "unknown", NsToMs(l.ts))>>
             \o PlanChangesFrom(Tail(lines))

\* What each fetch*Events makes of the lines lokiQuery returned.
EventsOfLines(q, lines) ==
    CASE q = "signup" -> SignupsFrom(lines, {})
      [] q = "plan"   -> PlanChangesFrom(lines)
      [] OTHER        -> ParseAll(lines, q)

\* ------------------------------------------------------------------------
\* The Grafana client (lokiQuery) and the backend behind it
\* ------------------------------------------------------------------------

\* The limit each fetch*Events passes to lokiQuery (the code's 200 and 50).
GuiLimit == 2
SignupLimit == 1

LimitOf(q) == IF q \in {"gui", "mcp"} THEN GuiLimit ELSE SignupLimit

RECURSIVE NewestFirst(_, _)
\* The n newest lines of a set, newest first (direction=backward, limit=n).
NewestFirst(S, n) ==
    IF S = {} \/ n = 0 THEN <<>>
    ELSE LET top == CHOOSE l \in S : \A m \in S : m.ts <= l.ts
         IN  <<top>> \o NewestFirst(S \ {top}, n - 1)

\* Loki's query_range: the lines of the query with start <= ts < end (both
\* given in seconds), the newest `limit` of them.
LokiResult(lines, q, start, end, limit) ==
    NewestFirst({l \in lines : /\ l.q = q
                              /\ l.ts >= start * MsPerSec * NsPerMs
                              /\ l.ts < end * MsPerSec * NsPerMs}, limit)

\* How the backend answers one fetch.  "reject": the fetch itself fails
\* (network); "non2xx": !res.ok; "notsuccess": a 2xx body whose status is not
\* 'success'; "badbody": a 2xx body res.json() cannot parse; "success".
Answers == {"success", "non2xx", "notsuccess", "badbody", "reject"}

\* Loki refuses a start or end of "NaN".
AnswersFor(start, end) ==
    IF IsNaN(start) \/ IsNaN(end) THEN {"non2xx", "reject"} ELSE Answers

\* A lokiQuery that lets a failed response through to res.json().
lokiQueryNoOkCheck(lines, q, start, end, limit, answer) ==
    IF answer \in {"reject", "badbody", "non2xx"} THEN [st |-> "thrown", lines |-> <<>>]
    ELSE IF answer = "notsuccess" THEN [st |-> "done", lines |-> <<>>]
    ELSE [st |-> "done", lines |-> LokiResult(lines, q, start, end, limit)]

\* lokiQuery: st = "thrown" when the promise rejects, else the streams' lines.
lokiQuery(lines, q, start, end, limit, answer) ==
    IF answer \in {"reject", "badbody"} THEN [st |-> "thrown", lines |-> <<>>]
    ELSE IF answer \in {"non2xx", "notsuccess"} THEN [st |-> "done", lines |-> <<>>]
    ELSE [st |-> "done", lines |-> LokiResult(lines, q, start, end, limit)]

\* fetchGUIEvents, fetchSignupEvents, fetchPlanChangeEvents, fetchMCPEvents
fetchEvents(lines, q, since, until, answer) ==
    LET r == lokiQuery(lines, q, ToSec(since), ToSec(until), LimitOf(q), answer)
    IN  [st |-> r.st, ev |-> EventsOfLines(q, r.lines)]

\* promQueryRange: as lokiQuery, on the metrics store.  `result` is the
\* data.result of the backend's body.
promQueryRange(result, answer) ==
    IF answer \in {"reject", "badbody"} THEN [st |-> "thrown", result |-> <<>>]
    ELSE IF answer \in {"non2xx", "notsuccess"} THEN [st |-> "done", result |-> <<>>]
    ELSE [st |-> "done", result |-> result]

\* promQuery: the instant query, the same handling.
promQuery(result, answer) ==
    IF answer \in {"reject", "badbody"} THEN [st |-> "thrown", result |-> <<>>]
    ELSE IF answer \in {"non2xx", "notsuccess"} THEN [st |-> "done", result |-> <<>>]
    ELSE [st |-> "done", result |-> result]

\* rangeSeconds: map[rangeLabel] || 3600
rangeSeconds(rangeLabel) ==
    CASE rangeLabel = "1h"  -> 3600
      [] rangeLabel = "6h"  -> 21600
      [] rangeLabel = "12h" -> 43200
      [] rangeLabel = "24h" -> 86400
      [] rangeLabel = "48h" -> 172800
      [] rangeLabel = "7d"  -> 604800
      [] OTHER -> 3600

\* A stepForRange whose limits are exclusive.
stepForRangeExclusive(rangeSecs) ==
    IF rangeSecs < 3600 THEN 60
    ELSE IF rangeSecs < 21600 THEN 300
    ELSE IF rangeSecs < 86400 THEN 600
    ELSE IF rangeSecs < 172800 THEN 1200
    ELSE 3600

stepForRange(rangeSecs) ==
    IF rangeSecs <= 3600 THEN 60
    ELSE IF rangeSecs <= 21600 THEN 300
    ELSE IF rangeSecs <= 86400 THEN 600
    ELSE IF rangeSecs <= 172800 THEN 1200
    ELSE 3600

\* ------------------------------------------------------------------------
\* The metrics routes: /api/instances/graph and /api/instances/drilldown
\* ------------------------------------------------------------------------

\* A label value (a pod, ReplicaSet or namespace name) as its dash-separated
\* segments; lower: the segment holds only a-z and 0-9.  <<>> is a missing
\* label.
Seg(text, lower) == [text |-> text, lower |-> lower]

RECURSIVE NameText(_)
NameText(segs) ==
    IF segs = <<>> THEN ""
    ELSE IF Len(segs) = 1 THEN segs[1].text
    ELSE segs[1].text \o "-" \o NameText(Tail(segs))

\* name.replace(/-[a-z0-9]{4,12}$/, '')
stripRsHash(segs) ==
    IF /\ Len(segs) >= 2
       /\ segs[Len(segs)].lower
       /\ Len(segs[Len(segs)].text) >= 4
       /\ Len(segs[Len(segs)].text) <= 12
    THEN SubSeq(segs, 1, Len(segs) - 1)
    ELSE segs

\* A sample value is the text Prometheus sends, as its characters.
Digits == {"0", "1", "2", "3", "4", "5", "6", "7", "8", "9"}

DigitValue(c) ==
    CASE c = "0" -> 0 [] c = "1" -> 1 [] c = "2" -> 2 [] c = "3" -> 3 [] c = "4" -> 4
      [] c = "5" -> 5 [] c = "6" -> 6 [] c = "7" -> 7 [] c = "8" -> 8 [] c = "9" -> 9

RECURSIVE DigitsValue(_, _, _)
DigitsValue(cs, acc, any) ==
    IF cs = <<>> \/ Head(cs) \notin Digits THEN (IF any THEN acc ELSE NaN)
    ELSE DigitsValue(Tail(cs), acc * 10 + DigitValue(Head(cs)), TRUE)

RECURSIVE parseIntText(_)
\* parseInt(val, 10) of an unsigned text: leading blanks are skipped, the
\* leading digits are the number, NaN when there are none.
parseIntText(cs) ==
    IF cs # <<>> /\ Head(cs) = " " THEN parseIntText(Tail(cs))
    ELSE DigitsValue(cs, 0, FALSE)

\* a + b on numbers that may be NaN
JsAdd(a, b) == IF IsNaN(a) \/ IsNaN(b) THEN NaN ELSE a + b

\* x || 0, for x a number, NaN or undefined (undefined is NaN here: both are falsy)
OrZero(x) == IF IsNaN(x) THEN 0 ELSE x

\* s.data.some((d) => d.value > 0)
SomePositive(data) == \E i \in DOMAIN data : ~IsNaN(data[i].value) /\ data[i].value > 0

\* A filter that keeps every series.
KeepAllSeries(series) == series

\* series.filter((s) => s.data.some((d) => d.value > 0))
NonZeroSeries(series) ==
    LET Keep(x) == SomePositive(x.data) IN SelectSeq(series, Keep)

\* results.map(r => ({name: label || 'unknown', data: (r.values || []).map(
\*     ([ts, val]) => ({time: ts * 1000, value: parseInt(val, 10)}))}))
PerResultSeries(results) ==
    [i \in DOMAIN results |->
        [name |-> IF results[i].metric = <<>> \/ NameText(results[i].metric) = ""
                  THEN "unknown" ELSE NameText(results[i].metric),
         data |-> [j \in DOMAIN results[i].values |->
                      [time |-> results[i].values[j][1] * 1000,
                       value |-> parseIntText(results[i].values[j][2])]]]]

RECURSIVE FlatSamples(_, _)
\* The samples in the order the two nested loops visit them, each under the
\* key its result is grouped by; a result whose key is "" is skipped when
\* skipEmpty is set (if (!tenant) continue).
FlatSamples(keyed, skipEmpty) ==
    IF keyed = <<>> THEN <<>>
    ELSE LET r == Head(keyed)
         IN  (IF skipEmpty /\ r.key = "" THEN <<>>
              ELSE [j \in DOMAIN r.values |->
                       [key |-> r.key, ts |-> r.values[j][1], val |-> r.values[j][2]]])
             \o FlatSamples(Tail(keyed), skipEmpty)

RECURSIVE KeysInOrder(_, _, _)
\* The keys the grouping object holds, in insertion order.  `inherited` are
\* the keys for which grouped[key] is truthy before any assignment: for them
\* no own property is made.
KeysInOrder(keyed, seen, inherited) ==
    IF keyed = <<>> THEN <<>>
    ELSE IF Head(keyed).key \in seen \cup inherited
         THEN KeysInOrder(Tail(keyed), seen, inherited)
         ELSE <<Head(keyed).key>> \o KeysInOrder(Tail(keyed), seen \cup {Head(keyed).key}, inherited)

RECURSIVE SumFold(_, _, _, _)
\* m[ts] = (m[ts] || 0) + parseInt(val, 10), over the samples of one key and
\* one timestamp in loop order; acc = NaN before the first of them.
SumFold(samples, key, ts, acc) ==
    IF samples = <<>> THEN acc
    ELSE IF Head(samples).key = key /\ Head(samples).ts = ts
         THEN SumFold(Tail(samples), key, ts, JsAdd(OrZero(acc), parseIntText(Head(samples).val)))
         ELSE SumFold(Tail(samples), key, ts, acc)

RECURSIVE Ascending(_)
\* The numbers of a set in ascending order.
Ascending(S) ==
    IF S = {} THEN <<>>
    ELSE LET lo == CHOOSE x \in S : \A y \in S : x <= y
         IN  <<lo>> \o Ascending(S \ {lo})

\* The series of the grouping: per key its timestamps in ascending order,
\* each with the folded sum.
GroupedSeries(keyed, skipEmpty, inherited) ==
    LET flat == FlatSamples(keyed, skipEmpty)
        keys == KeysInOrder(IF skipEmpty THEN SelectSeq(keyed, LAMBDA r : r.key # "") ELSE keyed,
                            {}, inherited)
    IN  [k \in DOMAIN keys |->
            LET times == Ascending({flat[i].ts : i \in {j \in DOMAIN flat : flat[j].key = keys[k]}})
            IN  [name |-> keys[k],
                 data |-> [t \in DOMAIN times |->
                              [time |-> times[t] * 1000,
                               value |-> SumFold(flat, keys[k], times[t], NaN)]]]]

\* The names Object.prototype gives every object literal ({}): grouped[name]
\* is truthy for them although nothing was assigned.
ObjectPrototypeKeys ==
    {"constructor", "__proto__", "toString", "valueOf", "hasOwnProperty",
     "isPrototypeOf", "propertyIsEnumerable", "toLocaleString"}

\* drilldown: const rsName = r.metric.created_by_name || 'unknown'; stripRsHash(rsName)
DeployKeyed(results) ==
    [i \in DOMAIN results |->
        [key |-> IF results[i].metric = <<>> \/ NameText(results[i].metric) = ""
                 THEN "unknown" ELSE NameText(stripRsHash(results[i].metric)),
         values |-> results[i].values]]

\* graph by pod: const podName = r.metric.pod || ''; podName.split('-')[0]
TenantKeyed(results) ==
    [i \in DOMAIN results |->
        [key |-> IF results[i].metric = <<>> THEN "" ELSE results[i].metric[1].text,
         values |-> results[i].values]]

\* The four routes.  "graph": graph/route.ts, one series per namespace;
\* "graphByPod": the graph route that groups the pods by tenant;
\* "drilldown": one series per deployment of a namespace; "drilldownByTenant":
\* one series per service of a tenant.
GraphRoutes == {"graph", "graphByPod", "drilldown", "drilldownByTenant"}

\* searchParams.get('range') || '1h' (graph routes) or '6h' (drill-down routes)
RangeOf(route, range) ==
    IF range # "" THEN range
    ELSE IF route \in {"graph", "graphByPod"} THEN "1h" ELSE "6h"

SeriesOf(route, results) ==
    CASE route = "graph"             -> NonZeroSeries(PerResultSeries(results))
      [] route = "drilldownByTenant" -> NonZeroSeries(PerResultSeries(results))
      [] route = "drilldown" ->
             NonZeroSeries(GroupedSeries(DeployKeyed(results), FALSE, ObjectPrototypeKeys))
      [] route = "graphByPod" ->
             NonZeroSeries(GroupedSeries(TenantKeyed(results), TRUE, {}))

\* GET of a metrics route.  st = "thrown": the handler's promise rejects (no
\* route has a try/catch around promQueryRange).
GraphGET(route, namespace, range, results, answer) ==
    IF route \in {"drilldown", "drilldownByTenant"} /\ namespace = ""
    THEN [st |-> "done", status |-> 400, series |-> <<>>, step |-> 0]
    ELSE LET r == promQueryRange(results, answer)
         IN  IF r.st = "thrown"
             THEN [st |-> "thrown", status |-> 500, series |-> <<>>, step |-> 0]
             ELSE [st |-> "done", status |-> 200, series |-> SeriesOf(route, r.result),
                   step |-> IF route \in {"graph", "graphByPod"}
                            THEN stepForRange(rangeSeconds(RangeOf(route, range))) ELSE 0]

\* ------------------------------------------------------------------------
\* The /api/events route (GET)
\* ------------------------------------------------------------------------

\* x - y on numbers that may be NaN.
Minus(x, y) == IF IsNaN(x) THEN NaN ELSE x - y

\* A request: its `since` and `before` parameters.
Req(since, before) == [since |-> since, before |-> before]

\* if (sinceParam) { live-poll mode } else { paginated mode }
IsLivePoll(req) == Truthy(req.since)

\* const before = beforeParam ? new Date(beforeParam).getTime() : now
BeforeOf(req, t) == IF Truthy(req.before) THEN ParseDate(req.before) ELSE t

\* The `since` handed to the four fetch*Events.
SinceOf(req, t) ==
    IF IsLivePoll(req) THEN ParseDate(req.since) ELSE Minus(BeforeOf(req, t), CHUNK_MS)

\* The `now` handed to the four fetch*Events.
UntilOf(req, t) == IF IsLivePoll(req) THEN t ELSE BeforeOf(req, t)

\* A hasMore that compares the cursor itself with the lookback limit.
HasMoreOfBefore(req, t) ==
    ~IsLivePoll(req) /\ ~IsNaN(BeforeOf(req, t)) /\ BeforeOf(req, t) > t - MAX_HISTORY_MS

\* const hasMore = since > oldest (false on NaN); hasMore: false in live-poll mode
HasMoreOf(req, t) ==
    ~IsLivePoll(req) /\ ~IsNaN(SinceOf(req, t)) /\ SinceOf(req, t) > t - MAX_HISTORY_MS

\* A response.  kind = "ok": NextResponse.json({events, count, latestTimestamp,
\* [oldestTimestamp,] hasMore}); kind = "err": NextResponse.json({events: [],
\* count: 0, error}, {status: 500}), which has no timestamps and no hasMore
\* (they are NoParam and FALSE here).
Response(kind, evs, latest, oldest, more) ==
    [kind |-> kind, events |-> evs, latestTimestamp |-> latest,
     oldestTimestamp |-> oldest, hasMore |-> more]

ErrorResponse == Response("err", <<>>, NoParam, NoParam, FALSE)

\* No response sent yet.
NoResponse == Response("none", <<>>, NoParam, NoParam, FALSE)

\* A live-poll latestTimestamp that always re-formats the parsed `since`.
LiveLatestReformatted(req, allEvents) ==
    IF Len(allEvents) > 0 THEN toISOString(allEvents[1].timestamp)
    ELSE toISOString(ParseDate(req.since))

\* allEvents.length > 0 ? new Date(allEvents[0].timestamp).toISOString() : sinceParam
LiveLatest(req, allEvents) ==
    IF Len(allEvents) > 0 THEN toISOString(allEvents[1].timestamp) ELSE req.since

\* The body of GET after the four promises have settled.  res maps each query
\* to [st, ev].  A rejected promise rejects Promise.all and the catch block
\* answers; so does the RangeError of toISOString on an invalid date.
GETResponse(req, t, res) ==
    IF \E q \in Queries : res[q].st = "thrown" THEN ErrorResponse
    ELSE LET allEvents == mergeAndDedup(res["gui"].ev, res["signup"].ev,
                                        res["plan"].ev, res["mcp"].ev)
             n == Len(allEvents)
         IN  IF IsLivePoll(req)
             THEN Response("ok", allEvents, LiveLatest(req, allEvents), NoParam, FALSE)
             ELSE IF n = 0 /\ IsNaN(BeforeOf(req, t)) THEN ErrorResponse
             ELSE Response("ok", allEvents,
                           IF n > 0 THEN toISOString(allEvents[1].timestamp)
                                    ELSE toISOString(BeforeOf(req, t)),
                           IF n > 0 THEN toISOString(allEvents[n].timestamp)
                                    ELSE toISOString(SinceOf(req, t)),
                           HasMoreOf(req, t))

\* GET as a whole: the four queries answered as `answers` says, at time t.
GET(req, t, lines, answers) ==
    GETResponse(req, t,
                [q \in Queries |->
                    fetchEvents(lines, q, SinceOf(req, t), UntilOf(req, t), answers[q])])

\* ------------------------------------------------------------------------
\* NotificationPanel: what each callback makes of a response
\* ------------------------------------------------------------------------

\* A pollNew that prepends every returned event.
PollMergeNoFilter(prev, newEvents) == newEvents \o prev

\* setEvents(prev => { trulyNew = newEvents.filter(not in prev);
\*                     return trulyNew.length === 0 ? prev : [...trulyNew, ...prev] })
PollMerge(prev, newEvents) == SelectIds(newEvents, IdsOf(prev)) \o prev

\* setEvents(prev => [...prev, ...olderEvents.filter(not in prev)])
OlderMerge(prev, olderEvents) == prev \o SelectIds(olderEvents, IdsOf(prev))

\* if (olderEvents.length > 0) { ...; if (data.oldestTimestamp) oldestEventTimeRef.current = data.oldestTimestamp }
OlderCursor(cur, resp) ==
    IF Len(resp.events) > 0 /\ Truthy(resp.oldestTimestamp) THEN resp.oldestTimestamp ELSE cur

\* if (newEvents.length > 0) { ...; if (data.latestTimestamp) lastEventTimeRef.current = data.latestTimestamp }
PollCursor(cur, resp) ==
    IF Len(resp.events) > 0 /\ Truthy(resp.latestTimestamp) THEN resp.latestTimestamp ELSE cur

\* A fetch whose response the callbacks take for a success whatever its status.
ResOkAlways(resp) == resp.kind # "rejected"

\* await fetch(...) came back and res.ok holds.  kind = "rejected": the fetch
\* promise rejected; "err": the route's 500.
ResOk(resp) == resp.kind = "ok"

\* A pollNew that sends its request with or without a cursor.
HasCursorAlways(ref) == TRUE

\* pollNew's first line: if (!lastEventTimeRef.current) return;
HasCursor(ref) == Truthy(ref)

INTERNAL_TENANTS ==
    {"eyevinn", "eyevinnlab", "simonsteam", "team2", "oscaidev", "testnp",
     "simondemo", "birme", "birispriv"}

\* mutedTenants.includes(tenant)
Includes(muted, tenant) == \E i \in DOMAIN muted : muted[i] = tenant

\* The predicate of filteredEvents and, negated, of `notifiable`.
Shown(e, muted, hide) ==
    ~Includes(muted, e.tenant) /\ ~(hide /\ e.tenant \in INTERNAL_TENANTS)

\* const filteredEvents = events.filter(...): the feed on display.
filteredEvents(evs, muted, hide) == SelectSeq(evs, LAMBDA e : Shown(e, muted, hide))

\* A handleMute that appends without looking.
handleMuteNoCheck(prev, tenant) == Append(prev, tenant)

\* setMutedTenants(prev => prev.includes(tenant) ? prev : [...prev, tenant])
handleMute(prev, tenant) == IF Includes(prev, tenant) THEN prev ELSE Append(prev, tenant)

\* setMutedTenants(prev => prev.filter(t => t !== tenant))
handleUnmute(prev, tenant) == SelectSeq(prev, LAMBDA t : t # tenant)

\* The state pollNew has captured: useCallback(..., [mutedTenants, hideInternal, isMuted])
Closure(muted, hide, soundOff) ==
    [mutedTenants |-> muted, hideInternal |-> hide, isMuted |-> soundOff]

\* The setTimeout callback of pollNew: notifiable = trulyNew.filter(...) with
\* the captured mutedTenants and hideInternal; sendMacNotification(notifiable)
\* and, unless the captured isMuted holds, playPing().
TimerCallback(trulyNew, seen) ==
    LET notifiable == filteredEvents(trulyNew, seen.mutedTenants, seen.hideInternal)
    IN  IF Len(notifiable) > 0
        THEN [events |-> notifiable, ping |-> ~seen.isMuted]
        ELSE [events |-> <<>>, ping |-> FALSE]

\* A call of fetch() in flight: who made it, the request, and the response
\* once the server has answered.
Call(fn, req) == [fn |-> fn, req |-> req, st |-> "sent", resp |-> NoResponse]

\* A call that pollNew made, with the state that pollNew had captured.
PollCall(req, seen) ==
    [fn |-> "poll", req |-> req, st |-> "sent", resp |-> NoResponse, seen |-> seen]

RemoveAt(s, i) == SubSeq(s, 1, i - 1) \o SubSeq(s, i + 1, Len(s))

\* The clock of the scenarios: some milliseconds into a second, with more
\* than the lookback and one chunk behind it.
NowStart == 40 * DayMs + 1

Pending == [st |-> "pending", ev |-> <<>>]

MergeIdle == mIn = [gui |-> <<>>, signup |-> <<>>, plan |-> <<>>, mcp |-> <<>>]
             /\ mOut = <<>> /\ mDone = FALSE

ServerIdle == /\ sReq = Req(NoParam, NoParam)
              /\ sPc = "idle"
              /\ sQ = [q \in Queries |-> Pending]
              /\ sAns = [q \in Queries |-> ""]
              /\ sResp = NoResponse

NoCall == [fn |-> "", q |-> "", start |-> 0, end |-> 0, answer |-> "", result |-> <<>>]

QueryIdle == cCall = NoCall /\ cOut = [st |-> "pending", result |-> <<>>]

ParseIdle == pCalls = <<>>

NoGraphCall == [route |-> "", range |-> "", namespace |-> "", results |-> <<>>, answer |-> ""]

GraphPending == [st |-> "pending", status |-> 0, series |-> <<>>, step |-> 0]

GraphIdle == gCall = NoGraphCall /\ gOut = GraphPending

RangeIdle == rangeCall = [pc |-> "idle", label |-> "", secs |-> 0, step |-> 0]

\* sendMacNotification / playPing not called.
NoNotification == [events |-> <<>>, ping |-> FALSE]

\* NotificationPanel as its first render leaves it.
PanelInit ==
    /\ events = <<>>
    /\ hasMore = TRUE
    /\ loading = TRUE
    /\ loadingOlder = FALSE
    /\ error = FALSE
    /\ lastEventTimeRef = NoParam
    /\ oldestEventTimeRef = NoParam
    /\ rendered = [loadingOlder |-> FALSE, hasMore |-> TRUE]
    /\ mounted = FALSE
    /\ calls = <<>>
    /\ overlapSeen = {}
    /\ mutedTenants = <<>>
    /\ hideInternal = FALSE
    /\ isMuted = TRUE
    /\ notified = NoNotification

\* No drill-down request made, none answered.
NoDrilldown == [namespace |-> "", range |-> ""]

\* InstanceGraph as its first render leaves it.
InstanceGraphInit ==
    /\ rangeSel = "6h"
    /\ soloedTenant = ""
    /\ drilldownSeries = <<>>
    /\ loadingDrilldown = FALSE
    /\ ddCalls = <<>>
    /\ drilldownOf = NoDrilldown

\* ------------------------------------------------------------------------
\* SpecMerge: mergeAndDedup on arbitrary lists
\* ------------------------------------------------------------------------

\* The events the lists are drawn from: equal ids with equal and with
\* different timestamps, audit and signup-flow tenant_signup events of one
\* tenant, and equal timestamps under different ids.
MergeEvents ==
    { Ev("i1", "tenant_signup", "acme", 5),
      Ev("i1", "instance_created", "acme", 7),
      Ev("i2", "tenant_signup", "acme", 5),
      Ev("i3", "plan_upgrade", "unknown", 7),
      Ev("i3", "plan_upgrade", "unknown", 3) }

SeqsUpTo(S, n) == UNION {[1..k -> S] : k \in 0..n}

MergeInit ==
    /\ \E s \in SeqsUpTo(MergeEvents, MaxLen) :
       \E a, b, c \in 0..Len(s) :
          /\ a <= b /\ b <= c
          /\ mIn = [gui |-> SubSeq(s, 1, a), signup |-> SubSeq(s, a + 1, b),
                    plan |-> SubSeq(s, b + 1, c), mcp |-> SubSeq(s, c + 1, Len(s))]
    /\ mOut = <<>>
    /\ mDone = FALSE
    /\ now = NowStart /\ log = {}
    /\ ServerIdle /\ QueryIdle /\ PanelInit /\ InstanceGraphInit /\ ParseIdle /\ GraphIdle /\ RangeIdle

Merge ==
    /\ ~mDone
    /\ mOut' = mergeAndDedup(mIn.gui, mIn.signup, mIn.plan, mIn.mcp)
    /\ mDone' = TRUE
    /\ UNCHANGED <<mIn, worldVars, serverVars, queryVars, parseVars, graphVars, rangeVars, panelVars, uiVars, igVars>>

MergeNext == Merge

SpecMerge == MergeInit /\ [][MergeNext]_vars

\* C1: the list mergeAndDedup returns holds no two events with the same id,
\* whatever the four input lists are.
C1_MergeNoDupIds == mDone => NoDupIds(mOut)

\* mergeAndDedup has run on lists that hold one id twice, within one list or
\* across two.
C1_Witness ==
    /\ mDone
    /\ ~NoDupIds(mIn.gui \o mIn.signup \o mIn.plan \o mIn.mcp)
    /\ Len(mOut) >= 2

\* ------------------------------------------------------------------------
\* SpecServer: one /api/events request, its four queries settling one by one
\* ------------------------------------------------------------------------

\* Raw timestamp of a line `ms` milliseconds (and `ns` ticks) before NowStart.
Ago(ms, ns) == (NowStart - ms) * NsPerMs - ns

\* The backend of SpecServer: one line per query in the newest chunk (the
\* audit and the structured-action line name the same tenant), and optional
\* lines: an older audit line, and a signup-flow line whose email= value is
\* the tenant of the audit line's create:tenant.
ServerBaseLines ==
    { Line("gui", Ago(DayMs, 0), "acme", "create:tenant", "acme", "absent", "ok"),
      Line("signup", Ago(DayMs, 1), "bob@x.io", "", "", "absent", "ok"),
      Line("plan", Ago(2 * DayMs, 0), "", "", "", "absent", "ok"),
      Line("mcp", Ago(DayMs + 1, 0), "acme", "create-my-app", "app1", "true", "ok") }

ServerMoreLines ==
    { Line("gui", Ago(4 * DayMs, 0), "zed", "delete:instance", "db/zed-1", "absent", "ok"),
      Line("signup", Ago(DayMs, 0), "acme", "", "", "absent", "ok") }

\* The `since` and `before` parameters of the requests of SpecServer.
SinceParams ==
    { NoParam, Param("empty", 0), Param("bad", 0),
      Param("iso", NowStart - 2 * DayMs), Param("raw", NowStart - 2 * DayMs) }

BeforeParams ==
    { NoParam, Param("bad", 0), Param("iso", NowStart - 2 * DayMs),
      Param("iso", NowStart - 28 * DayMs) }

ServerInit ==
    /\ now = NowStart
    /\ \E more \in SUBSET ServerMoreLines : log = ServerBaseLines \cup more
    /\ \E s \in SinceParams, b \in BeforeParams : sReq = Req(s, b)
    /\ sPc = "start"
    /\ sQ = [q \in Queries |-> Pending]
    /\ sAns = [q \in Queries |-> ""]
    /\ sResp = NoResponse
    /\ MergeIdle /\ QueryIdle /\ PanelInit /\ InstanceGraphInit /\ ParseIdle /\ GraphIdle /\ RangeIdle

\* GET up to Promise.all: the four fetch*Events are called, each sends its
\* request.
GETStart ==
    /\ sPc = "start"
    /\ sPc' = "fetching"
    /\ UNCHANGED <<sReq, sQ, sAns, sResp, worldVars, mergeVars, queryVars, parseVars, graphVars, rangeVars, panelVars, uiVars, igVars>>

\* The backend answers query q and its fetch*Events promise settles.  The
\* other promises are not affected, also after GET has answered.
QuerySettle(q) ==
    /\ sPc \in {"fetching", "responded"}
    /\ sQ[q].st = "pending"
    /\ \E a \in AnswersFor(ToSec(SinceOf(sReq, now)), ToSec(UntilOf(sReq, now))) :
          /\ sQ' = [sQ EXCEPT ![q] = fetchEvents(log, q, SinceOf(sReq, now),
                                                 UntilOf(sReq, now), a)]
          /\ sAns' = [sAns EXCEPT ![q] = a]
    /\ UNCHANGED <<sReq, sPc, sResp, worldVars, mergeVars, queryVars, parseVars, graphVars, rangeVars, panelVars, uiVars, igVars>>

\* A Promise.all that resolves with the first promise fulfilled.
AnyFulfilled(res) == \E q \in Queries : res[q].st = "done"

\* await Promise.all([...]) resumes with the four results when all four
\* promises are fulfilled.
AllFulfilled(res) == \A q \in Queries : res[q].st = "done"

\* Promise.all resolves: all four promises are fulfilled.
GETRespond ==
    /\ sPc = "fetching"
    /\ AllFulfilled(sQ)
    /\ sResp' = GETResponse(sReq, now, sQ)
    /\ sPc' = "responded"
    /\ UNCHANGED <<sReq, sQ, sAns, worldVars, mergeVars, queryVars, parseVars, graphVars, rangeVars, panelVars, uiVars, igVars>>

\* Promise.all rejects as soon as one promise is rejected: the catch block.
GETCatch ==
    /\ sPc = "fetching"
    /\ \E q \in Queries : sQ[q].st = "thrown"
    /\ sResp' = ErrorResponse
    /\ sPc' = "responded"
    /\ UNCHANGED <<sReq, sQ, sAns, worldVars, mergeVars, queryVars, parseVars, graphVars, rangeVars, panelVars, uiVars, igVars>>

ServerNext ==
    \/ GETStart
    \/ \E q \in Queries : QuerySettle(q)
    \/ GETRespond
    \/ GETCatch

SpecServer == ServerInit /\ [][ServerNext]_vars

\* The events GET would answer with if query q contributed nothing and the
\* other three were answered with success.
EventsWithout(q) ==
    LET r == [x \in Queries |->
                IF x = q THEN <<>>
                ELSE fetchEvents(log, x, SinceOf(sReq, now), UntilOf(sReq, now), "success").ev]
    IN  mergeAndDedup(r["gui"], r["signup"], r["plan"], r["mcp"])

C7_OneFailureTolerated ==
    \A q \in Queries :
        ( /\ sPc = "responded"
          /\ sAns[q] \in {"non2xx", "reject"}
          /\ \A r \in Queries \ {q} : sAns[r] = "success" )
        => (sResp.kind = "ok" /\ sResp.events = EventsWithout(q))

\* C9 (as claimed): a request with an unparseable `since` (live-poll mode) or
\* `before` (paginated mode) is answered with an error response whose event
\* list is empty.
C9_InvalidParamsError ==
    ( /\ sPc = "responded"
      /\ \/ sReq.since.k = "bad"
         \/ (~Truthy(sReq.since) /\ sReq.before.k = "bad") )
    => (sResp.kind = "err" /\ sResp.events = <<>>)

\* C10: in live-poll mode latestTimestamp is the ISO form of the timestamp of
\* events[0], which is the newest of the list; with no events it is the
\* `since` parameter as it was sent.
C10_LiveLatest ==
    (sPc = "responded" /\ sResp.kind = "ok" /\ Truthy(sReq.since)) =>
        IF sResp.events = <<>> THEN sResp.latestTimestamp = sReq.since
        ELSE /\ sResp.latestTimestamp = [k |-> "iso", ms |-> sResp.events[1].timestamp]
             /\ \A i \in DOMAIN sResp.events :
                   sResp.events[i].timestamp <= sResp.events[1].timestamp

\* A live poll answered with several events of different times.
C10_Witness ==
    /\ sPc = "responded" /\ sResp.kind = "ok" /\ Truthy(sReq.since)
    /\ Len(sResp.events) >= 2
    /\ sResp.events[1].timestamp > sResp.events[Len(sResp.events)].timestamp

\* C22: the merge runs only after all four queries have completed: a response
\* that holds merged events is sent in a step before which all four promises
\* were fulfilled, and it is the merge of the four results; a response sent
\* while a query is still pending is the error response, which holds no
\* events.
C22_MergeAfterAllFour ==
    /\ [][ (sResp' # sResp /\ sResp'.kind = "ok") =>
              /\ \A q \in Queries : sQ[q].st = "done"
              /\ sResp'.events = mergeAndDedup(sQ["gui"].ev, sQ["signup"].ev,
                                               sQ["plan"].ev, sQ["mcp"].ev) ]_vars
    /\ []((sPc = "responded" /\ \E q \in Queries : sQ[q].st # "done") =>
             (sResp.kind = "err" /\ sResp.events = <<>>))

\* A response with events of at least three of the queries was sent, the
\* response to a live poll or to a page request.
C22_Witness ==
    /\ sPc = "responded" /\ sResp.kind = "ok"
    /\ Cardinality({q \in Queries : sQ[q].ev # <<>>}) >= 3
    /\ Len(sResp.events) >= 3

\* C11: the events of a response are ordered by non-increasing timestamp:
\* each event is at least as new as the one listed after it, so the first is
\* the newest and the last the oldest of the page.
C11_EventsNewestFirst ==
    (sPc = "responded" /\ sResp.kind = "ok") =>
        /\ \A i \in DOMAIN sResp.events :
              i < Len(sResp.events) =>
                 sResp.events[i].timestamp >= sResp.events[i + 1].timestamp
        /\ \A i \in DOMAIN sResp.events :
              /\ sResp.events[1].timestamp >= sResp.events[i].timestamp
              /\ sResp.events[Len(sResp.events)].timestamp <= sResp.events[i].timestamp

\* A response whose events come from several queries, and in which a query
\* listed later by the merge holds an event newer than one of a query listed
\* before it.
C11_Witness ==
    /\ sPc = "responded" /\ sResp.kind = "ok"
    /\ Len(sResp.events) >= 3
    /\ \E i \in DOMAIN sQ["plan"].ev, j \in DOMAIN sQ["mcp"].ev :
          sQ["plan"].ev[i].timestamp < sQ["mcp"].ev[j].timestamp

\* The tenants the audit format reports as signed up in this request.
AuditSignupTenants ==
    {sQ["gui"].ev[i].tenant :
        i \in {j \in DOMAIN sQ["gui"].ev : sQ["gui"].ev[j].type = "tenant_signup"}}

\* C12: a response holds no signup-flow event whose tenant is the tenant of an
\* audit-format tenant_signup event of the same request, and the rule takes
\* away signup-flow events only: every audit, plan-change and
\* structured-action event the queries returned is in the response.
C12_SignupSuppressed ==
    (sPc = "responded" /\ sResp.kind = "ok") =>
        /\ \A i \in DOMAIN sQ["signup"].ev :
              sQ["signup"].ev[i].tenant \in AuditSignupTenants
                 => sQ["signup"].ev[i].id \notin IdsOf(sResp.events)
        /\ \A q \in {"gui", "plan", "mcp"} :
              \A i \in DOMAIN sQ[q].ev : sQ[q].ev[i] \in {sResp.events[j] : j \in DOMAIN sResp.events}

\* The signup-flow query returned an event for a tenant the audit query
\* reports too, and the response was sent.
C12_Witness ==
    /\ sPc = "responded" /\ sResp.kind = "ok"
    /\ \E i \in DOMAIN sQ["signup"].ev : sQ["signup"].ev[i].tenant \in AuditSignupTenants
    /\ Len(sResp.events) >= 3

\* ------------------------------------------------------------------------
\* SpecQuery: one call of lokiQuery, promQueryRange or promQuery
\* ------------------------------------------------------------------------

\* What the metrics store holds: result series (label, samples).
PromResults ==
    { <<>>,
      <<[metric |-> "acme", values |-> <<<<10, "2">>, <<20, "0">>>>]>>,
      <<[metric |-> "acme", values |-> <<<<10, "1">>>>],
        [metric |-> "zed", values |-> <<<<10, "0">>>>]>> }

QueryInit ==
    /\ now = NowStart
    /\ log \in SUBSET ServerBaseLines
    /\ \E fn \in {"lokiQuery", "promQueryRange", "promQuery"}, a \in Answers,
          e \in {ToSec(NowStart), ToSec(NowStart - DayMs)} :
          \/ /\ fn = "lokiQuery"
             /\ \E q \in Queries :
                   cCall = [fn |-> fn, q |-> q, start |-> ToSec(NowStart - CHUNK_MS),
                            end |-> e, answer |-> a, result |-> <<>>]
          \/ /\ fn # "lokiQuery"
             /\ \E r \in PromResults :
                   cCall = [fn |-> fn, q |-> "", start |-> ToSec(NowStart - CHUNK_MS),
                            end |-> e, answer |-> a, result |-> r]
    /\ cOut = [st |-> "pending", result |-> <<>>]
    /\ MergeIdle /\ ServerIdle /\ PanelInit /\ InstanceGraphInit /\ ParseIdle /\ GraphIdle /\ RangeIdle

\* The call is made and its promise settles.
QueryCall ==
    /\ cOut.st = "pending"
    /\ cOut' =
         CASE cCall.fn = "lokiQuery" ->
                  LET r == lokiQuery(log, cCall.q, cCall.start, cCall.end,
                                     LimitOf(cCall.q), cCall.answer)
                  IN  [st |-> r.st, result |-> r.lines]
           [] cCall.fn = "promQueryRange" -> promQueryRange(cCall.result, cCall.answer)
           [] OTHER -> promQuery(cCall.result, cCall.answer)
    /\ UNCHANGED <<cCall, worldVars, mergeVars, serverVars, panelVars, uiVars, igVars, parseVars, graphVars, rangeVars>>

QueryNext == QueryCall

SpecQuery == QueryInit /\ [][QueryNext]_vars

\* C8: on a non-2xx answer, and on a body whose status is not 'success',
\* lokiQuery, promQueryRange and promQuery return an empty array and do not
\* throw.
C8_Non2xxEmpty ==
    (cOut.st # "pending" /\ cCall.answer \in {"non2xx", "notsuccess"}) =>
        (cOut.st = "done" /\ cOut.result = <<>>)

\* A call answered non-2xx although the backend holds data for it.
C8_Witness ==
    /\ cOut.st = "done" /\ cCall.answer = "non2xx"
    /\ \/ cCall.fn # "lokiQuery" /\ cCall.result # <<>>
       \/ cCall.fn = "lokiQuery" /\ \E l \in log : l.q = cCall.q

\* ------------------------------------------------------------------------
\* NotificationPanel: the callbacks, and the server answering their fetches
\* ------------------------------------------------------------------------

\* How many fetches the panel has in flight at most.
MaxInFlight == 2

AllSuccess == [q \in Queries |-> "success"]

\* The route handles the request of call i, the four queries answered as
\* `answers` says.
ServerAnswer(i, answers) ==
    /\ i \in DOMAIN calls
    /\ calls[i].st = "sent"
    /\ calls' = [calls EXCEPT ![i].st = "answered",
                              ![i].resp = GET(calls[i].req, now, log, answers)]
    /\ UNCHANGED <<events, hasMore, loading, loadingOlder, error, lastEventTimeRef,
                   oldestEventTimeRef, rendered, mounted, overlapSeen>>
    /\ UNCHANGED <<worldVars, mergeVars, serverVars, queryVars, parseVars, graphVars, rangeVars, uiVars, igVars>>

\* useEffect(() => { fetchInitial() }, [fetchInitial]): fetch('/api/events')
FetchInitialStart ==
    /\ ~mounted
    /\ mounted' = TRUE
    /\ calls' = Append(calls, Call("initial", Req(NoParam, NoParam)))
    /\ UNCHANGED <<events, hasMore, loading, loadingOlder, error, lastEventTimeRef,
                   oldestEventTimeRef, rendered, overlapSeen>>
    /\ UNCHANGED <<worldVars, mergeVars, serverVars, queryVars, parseVars, graphVars, rangeVars, uiVars, igVars>>

\* fetchInitial after its await: the response, or the catch block.
FetchInitialDone(i) ==
    /\ i \in DOMAIN calls
    /\ calls[i].fn = "initial" /\ calls[i].st = "answered"
    /\ LET data == calls[i].resp
       IN  IF ResOk(data)
           THEN /\ events' = data.events
                /\ hasMore' = data.hasMore
                /\ lastEventTimeRef' = IF Truthy(data.latestTimestamp)
                                       THEN data.latestTimestamp ELSE lastEventTimeRef
                /\ oldestEventTimeRef' = IF Truthy(data.oldestTimestamp)
                                         THEN data.oldestTimestamp ELSE oldestEventTimeRef
                /\ error' = FALSE
           ELSE /\ error' = TRUE
                /\ UNCHANGED <<events, hasMore, lastEventTimeRef, oldestEventTimeRef>>
    /\ loading' = FALSE
    /\ calls' = RemoveAt(calls, i)
    /\ UNCHANGED <<loadingOlder, rendered, mounted, overlapSeen>>
    /\ UNCHANGED <<worldVars, mergeVars, serverVars, queryVars, parseVars, graphVars, rangeVars, uiVars, igVars>>

\* The interval calls pollNew: it returns at once without a cursor, else
\* fetch(`/api/events?since=${lastEventTimeRef.current}`)
PollStart ==
    /\ HasCursor(lastEventTimeRef)
    /\ Len(calls) < MaxInFlight
    /\ calls' = Append(calls, PollCall(Req(lastEventTimeRef, NoParam),
                                       Closure(mutedTenants, hideInternal, isMuted)))
    /\ UNCHANGED <<events, hasMore, loading, loadingOlder, error, lastEventTimeRef,
                   oldestEventTimeRef, rendered, mounted, overlapSeen>>
    /\ UNCHANGED <<worldVars, mergeVars, serverVars, queryVars, parseVars, graphVars, rangeVars, uiVars, igVars>>

\* pollNew after its await.  The state updater and the timer callback it
\* schedules with setTimeout(..., 0) read nothing but the response, the list
\* and what pollNew had captured when it was called, so they are part of this
\* step.  notified is what this run sent (nothing when it scheduled no timer).
PollDone(i) ==
    /\ i \in DOMAIN calls
    /\ calls[i].fn = "poll" /\ calls[i].st = "answered"
    /\ LET data == calls[i].resp
       IN  IF ResOk(data) /\ Len(data.events) > 0
           THEN /\ events' = PollMerge(events, data.events)
                /\ lastEventTimeRef' = PollCursor(lastEventTimeRef, data)
                /\ notified' = TimerCallback(SelectIds(data.events, IdsOf(events)),
                                             calls[i].seen)
           ELSE /\ UNCHANGED <<events, lastEventTimeRef>>
                /\ notified' = NoNotification
    /\ overlapSeen' = IF IdsOf(calls[i].resp.events) \cap IdsOf(events) # {}
                      THEN overlapSeen \cup {"poll"} ELSE overlapSeen
    /\ calls' = RemoveAt(calls, i)
    /\ UNCHANGED <<hasMore, loading, loadingOlder, error, oldestEventTimeRef,
                   rendered, mounted>>
    /\ UNCHANGED <<mutedTenants, hideInternal, isMuted>>
    /\ UNCHANGED <<worldVars, mergeVars, serverVars, queryVars, parseVars, graphVars, rangeVars, igVars>>

\* The sentinel intersects and the observer calls the fetchOlder of the last
\* commit: if (loadingOlder || !hasMore || !oldestEventTimeRef.current) return;
\* setLoadingOlder(true); fetch(`/api/events?before=${oldestEventTimeRef.current}`)
FetchOlderStart ==
    /\ ~rendered.loadingOlder /\ rendered.hasMore /\ Truthy(oldestEventTimeRef)
    /\ Len(calls) < MaxInFlight
    /\ loadingOlder' = TRUE
    /\ calls' = Append(calls, Call("older", Req(NoParam, oldestEventTimeRef)))
    /\ UNCHANGED <<events, hasMore, loading, error, lastEventTimeRef,
                   oldestEventTimeRef, rendered, mounted, overlapSeen>>
    /\ UNCHANGED <<worldVars, mergeVars, serverVars, queryVars, parseVars, graphVars, rangeVars, uiVars, igVars>>

\* fetchOlder after its await: the response, or the catch block; finally
\* setLoadingOlder(false).
FetchOlderDone(i) ==
    /\ i \in DOMAIN calls
    /\ calls[i].fn = "older" /\ calls[i].st = "answered"
    /\ LET data == calls[i].resp
       IN  IF ResOk(data)
           THEN /\ events' = IF Len(data.events) > 0
                             THEN OlderMerge(events, data.events) ELSE events
                /\ oldestEventTimeRef' = OlderCursor(oldestEventTimeRef, data)
                /\ hasMore' = data.hasMore
           ELSE UNCHANGED <<events, oldestEventTimeRef, hasMore>>
    /\ loadingOlder' = FALSE
    /\ overlapSeen' = IF IdsOf(calls[i].resp.events) \cap IdsOf(events) # {}
                      THEN overlapSeen \cup {"older"} ELSE overlapSeen
    /\ calls' = RemoveAt(calls, i)
    /\ UNCHANGED <<loading, error, lastEventTimeRef, rendered, mounted>>
    /\ UNCHANGED <<worldVars, mergeVars, serverVars, queryVars, parseVars, graphVars, rangeVars, uiVars, igVars>>

\* React commits a render and the observer effect runs again: the observer's
\* fetchOlder now sees the current loadingOlder and hasMore.
Render ==
    /\ rendered # [loadingOlder |-> loadingOlder, hasMore |-> hasMore]
    /\ rendered' = [loadingOlder |-> loadingOlder, hasMore |-> hasMore]
    /\ UNCHANGED <<events, hasMore, loading, loadingOlder, error, lastEventTimeRef,
                   oldestEventTimeRef, mounted, calls, overlapSeen>>
    /\ UNCHANGED <<worldVars, mergeVars, serverVars, queryVars, parseVars, graphVars, rangeVars, uiVars, igVars>>

\* ------------------------------------------------------------------------
\* Spec: the panel with its initial load, live polls and backfill pages in
\* any interleaving, requests failing or not, the clock moving
\* ------------------------------------------------------------------------

\* How many milliseconds the clock moves on.
MaxTicks == 2

\* Time passes.
Tick ==
    /\ now < NowStart + MaxTicks
    /\ now' = now + 1
    /\ UNCHANGED <<log, mergeVars, serverVars, queryVars, parseVars, graphVars, rangeVars, panelVars, uiVars, igVars>>

\* The backend of Spec: lines before NowStart, in its second and older, and
\* lines a later poll finds; in the newest chunk and in the one before.
PanelLines ==
    { Line("gui", Ago(MsPerSec + 1, 0), "acme", "create:instance", "db/a1", "absent", "ok"),
      Line("mcp", Ago(MsPerSec, 0), "dina", "create-my-app", "app1", "true", "ok"),
      Line("signup", Ago(1, 1), "bob@x.io", "", "", "absent", "ok"),
      Line("plan", Ago(CHUNK_MS + MsPerSec, 0), "", "", "", "absent", "ok") }

\* How the backend answers the four queries of one request: all with success,
\* one with a non-2xx status, or one not at all.
AnswerProfiles ==
    { AllSuccess,
      [AllSuccess EXCEPT !["gui"] = "non2xx"],
      [AllSuccess EXCEPT !["plan"] = "reject"] }

Init ==
    /\ now = NowStart
    /\ log \in SUBSET PanelLines
    /\ PanelInit /\ InstanceGraphInit
    /\ MergeIdle /\ ServerIdle /\ QueryIdle /\ ParseIdle /\ GraphIdle /\ RangeIdle

Next ==
    \/ Tick
    \/ FetchInitialStart
    \/ \E i \in 1..MaxInFlight, a \in AnswerProfiles : ServerAnswer(i, a)
    \/ \E i \in 1..MaxInFlight : FetchInitialDone(i)
    \/ PollStart
    \/ \E i \in 1..MaxInFlight : PollDone(i)
    \/ FetchOlderStart
    \/ \E i \in 1..MaxInFlight : FetchOlderDone(i)
    \/ Render

Spec == Init /\ [][Next]_vars

\* C2: whatever the interleaving of the initial load, live polls and backfill
\* pages, the panel's event list holds no two events with the same id.
C2_PanelNoDupIds == NoDupIds(events)

\* A live poll and a backfill page have each brought an event the list
\* already held, and the list has grown beyond the initial page.
C2_Witness ==
    /\ overlapSeen = {"poll", "older"}
    /\ Len(events) >= 3

\* C23 (as claimed): no step moves the live-poll cursor to an earlier time,
\* whatever the interleaving of overlapping polls and the order in which their
\* responses arrive.
C23_CursorMonotonic ==
    [][ Truthy(lastEventTimeRef) =>
           ParseDate(lastEventTimeRef') >= ParseDate(lastEventTimeRef) ]_vars

\* ------------------------------------------------------------------------
\* SpecWalk: the initial load and the backfill walk, every request answered
\* with success, the clock standing at NowStart
\* ------------------------------------------------------------------------

ChunkSec == 3 * DaySec

\* The k-th line of the spine: a plan-change line d seconds after the start
\* of the k-th 3-day chunk before NowStart.
SpineLine(k, d) ==
    Line("plan", (ToSec(NowStart) - ChunkSec * (k + 1) + d) * MsPerSec * NsPerMs,
         "", "", "", "absent", "ok")

\* Enough spine lines to lead the walk past the lookback limit.
SpineMax == MAX_HISTORY_MS \div CHUNK_MS + 1

\* Lines of the newest two chunks: three audit lines (more than GuiLimit when
\* all are there) and one structured-action line.
WalkMoreLines ==
    { Line("gui", Ago(MsPerSec + 1, 0), "acme", "create:instance", "db/a1", "absent", "ok"),
      Line("gui", Ago(2 * MsPerSec, 0), "bolt", "delete:instance", "db/b1", "absent", "ok"),
      Line("gui", Ago(2 * MsPerSec + 1, 0), "cato", "restart:instance", "db/c1", "absent", "ok"),
      Line("mcp", Ago(CHUNK_MS + MsPerSec, 1), "dina", "create-my-app", "app1", "true", "ok") }

WalkLogs ==
    { {SpineLine(k, d) : k \in 0..(n - 1)} \cup more :
        d \in 0..1, n \in 0..SpineMax, more \in SUBSET WalkMoreLines }

WalkInit ==
    /\ now = NowStart
    /\ log \in WalkLogs
    /\ PanelInit /\ InstanceGraphInit
    /\ MergeIdle /\ ServerIdle /\ QueryIdle /\ ParseIdle /\ GraphIdle /\ RangeIdle

\* The walk asks for one page at a time: the sentinel triggers fetchOlder
\* when no request is in flight.
WalkStep == calls = <<>> /\ FetchOlderStart

WalkNext ==
    \/ FetchInitialStart
    \/ \E i \in 1..MaxInFlight : ServerAnswer(i, AllSuccess)
    \/ \E i \in 1..MaxInFlight : FetchInitialDone(i)
    \/ WalkStep
    \/ \E i \in 1..MaxInFlight : FetchOlderDone(i)
    \/ Render

SpecWalk == WalkInit /\ [][WalkNext]_vars

\* The events the backend holds: what the parsers make of each line.
BackendEvents == UNION {{EventsOfLines(l.q, <<l>>)[i] : i \in DOMAIN EventsOfLines(l.q, <<l>>)} : l \in log}

\* The walk is over: the initial load is done and the panel has learnt
\* hasMore = false, with nothing in flight.
WalkOver == mounted /\ ~loading /\ ~error /\ ~hasMore /\ calls = <<>>

\* C3 (as claimed): when the walk is over, every backend event whose
\* timestamp lies in [now - 30 days, now] has appeared in some page (the
\* panel's list holds the events of all pages).
C3_NoGaps ==
    WalkOver =>
        \A e \in BackendEvents :
            (e.timestamp >= now - MAX_HISTORY_MS /\ e.timestamp <= now)
                => e.id \in IdsOf(events)

\* C4 (as claimed), as the progress the walk needs to end: a page that is
\* answered with success either ends the walk (hasMore = false) or moves the
\* backfill cursor to an earlier time.  With the clock and the backend standing
\* still, a page that does neither leaves the panel as it was before the
\* request, and the sentinel asks for the same page again, without end.
C4_WalkTerminates ==
    [][ \A i \in 1..MaxInFlight :
           (FetchOlderDone(i) /\ calls[i].resp.kind = "ok")
               => (~hasMore' \/ ParseDate(oldestEventTimeRef') < ParseDate(oldestEventTimeRef)) ]_vars

\* C5 (as claimed): no paginated response holds an event older than
\* now - 30 days.
C5_NothingBeyondLookback ==
    \A i \in DOMAIN calls :
        (calls[i].st = "answered" /\ calls[i].fn \in {"initial", "older"}) =>
            \A j \in DOMAIN calls[i].resp.events :
                calls[i].resp.events[j].timestamp >= now - MAX_HISTORY_MS


\* ------------------------------------------------------------------------
\* SpecParse: parseGUIAuditLine and parseMCPAuditLine called on single lines
\* ------------------------------------------------------------------------

\* How many parser calls a run makes.
MaxParses == 2

AuditVerbs ==
    {"create:instance", "delete:instance", "restart:instance", "create:tenant",
     "deploy:solution", "delete:solution"}

\* customer=<c> ... performed action <verb> on resource <res>
AuditText(c, verb, res) ==
    <<Tok("level", "info"), Tok("customer", c), Word("performed"), Word("action"),
      Word(verb), Word("on"), Word("resource"), Word(res)>>

\* The audit lines parsed: every recognized verb, an unrecognized one, the
\* same customer and verb on a second resource, and
\* lines without a customer field, with an empty one, without the action
\* phrase and with a cut-off one.
AuditTexts ==
    {AuditText("acme", v, "couchdb/acme-db-1") : v \in AuditVerbs \cup {"update:instance"}}
    \cup { AuditText("zed", "create:instance", "web"),
           AuditText("acme", "create:instance", "web/acme-web-1"),
           <<Word("performed"), Word("action"), Word("create:instance"), Word("on"),
             Word("resource"), Word("db/a1")>>,
           <<Tok("customer", ""), Word("action"), Word("create:instance"), Word("on"),
             Word("resource"), Word("db/a1")>>,
           <<Tok("customer", "acme"), Word("deleted"), Word("db/a1")>>,
           <<Tok("customer", "acme"), Word("action"), Word("create:instance"), Word("on"),
             Word("resource")>>,
           <<>> }

\* The structured-action lines parsed: every write action, one action with
\* every value of the success field, a record without tenantId, a read action,
\* a record without action, a line without msg=" and one with broken JSON.
McpLines ==
    {Line("mcp", 0, "acme", a, "app1", "true", "ok") : a \in MCP_WRITE_ACTIONS}
    \cup {Line("mcp", 0, "acme", "create-my-app", "app1", v, "ok") : v \in JsonValues}
    \cup { Line("mcp", 0, "", "delete-my-app", "app1", "true", "ok"),
           Line("mcp", 0, "acme", "list-my-apps", "", "true", "ok"),
           Line("mcp", 0, "acme", "", "app1", "true", "ok"),
           Line("mcp", 0, "acme", "create-my-app", "app1", "true", "nomsg"),
           Line("mcp", 0, "acme", "create-my-app", "app1", "true", "badjson") }

\* Raw timestamps: one below MaxSafe, and two of the size Loki's nanosecond
\* timestamps have (above MaxSafe), the second just below a millisecond
\* boundary.
ParseTimestamps == {NowStart * NsPerMs, MaxSafe + 4 * NsPerMs, MaxSafe + 4 * NsPerMs - 1}

NoLine == Line("", 0, "", "", "", "absent", "ok")

ParseInit ==
    /\ pCalls = <<>>
    /\ now = NowStart /\ log = {}
    /\ MergeIdle /\ ServerIdle /\ QueryIdle /\ PanelInit /\ InstanceGraphInit /\ GraphIdle /\ RangeIdle

\* parseGUIAuditLine(ts, line) is called.
ParseGUI ==
    /\ Len(pCalls) < MaxParses
    /\ \E ts \in ParseTimestamps, text \in AuditTexts :
          pCalls' = Append(pCalls, [fn |-> "gui", ts |-> ts, text |-> text, line |-> NoLine,
                                    out |-> parseGUIAuditLine(ts, AuditFields(ts, text))])
    /\ UNCHANGED <<worldVars, mergeVars, serverVars, queryVars, panelVars, uiVars, igVars, graphVars, rangeVars>>

\* parseMCPAuditLine(ts, line) is called.
ParseMCP ==
    /\ Len(pCalls) < MaxParses
    /\ \E ts \in {NowStart * NsPerMs, MaxSafe + 4 * NsPerMs}, line \in McpLines :
          pCalls' = Append(pCalls, [fn |-> "mcp", ts |-> ts, text |-> <<>>, line |-> line,
                                    out |-> parseMCPAuditLine(ts, line)])
    /\ UNCHANGED <<worldVars, mergeVars, serverVars, queryVars, panelVars, uiVars, igVars, graphVars, rangeVars>>

ParseNext == ParseGUI \/ ParseMCP

SpecParse == ParseInit /\ [][ParseNext]_vars

\* C13 (as claimed): the structured-action parser returns no event for a
\* record whose success field is anything other than true, for a record whose
\* action is outside the allow-list, and for a line whose msg payload is not
\* valid JSON.
C13_McpNoEvent ==
    \A i \in DOMAIN pCalls :
        ( /\ pCalls[i].fn = "mcp"
          /\ \/ pCalls[i].line.ok # "true"
             \/ pCalls[i].line.act \notin MCP_WRITE_ACTIONS
             \/ pCalls[i].line.fmt = "badjson" )
        => pCalls[i].out = <<>>

\* C14: the audit-line parser returns no event for a line without a
\* customer=<token> field, for a line without the phrase "action <verb> on
\* resource <path>", and for a verb outside the six recognized ones.
C14_AuditNoEvent ==
    \A i \in DOMAIN pCalls :
        ( /\ pCalls[i].fn = "gui"
          /\ \/ ~\E k \in DOMAIN pCalls[i].text :
                   pCalls[i].text[k].key = "customer" /\ pCalls[i].text[k].val # ""
             \/ ~\E k \in DOMAIN pCalls[i].text :
                   /\ k + 4 <= Len(pCalls[i].text)
                   /\ pCalls[i].text[k].val = "action" /\ pCalls[i].text[k + 2].val = "on"
                   /\ pCalls[i].text[k + 3].val = "resource"
             \/ \E k \in DOMAIN pCalls[i].text :
                   /\ k + 4 <= Len(pCalls[i].text)
                   /\ pCalls[i].text[k].val = "action" /\ pCalls[i].text[k + 2].val = "on"
                   /\ pCalls[i].text[k + 1].val \notin AuditVerbs )
        => pCalls[i].out = <<>>

\* The parser has been called on a line with an unrecognized verb and on a
\* line without the action phrase, and returned no event for either.
C14_Witness ==
    /\ Len(pCalls) = 2
    /\ pCalls[1].fn = "gui" /\ pCalls[1].text = AuditText("acme", "update:instance", "couchdb/acme-db-1")
    /\ pCalls[2].fn = "gui" /\ pCalls[2].text = <<Tok("customer", "acme"), Word("deleted"), Word("db/a1")>>
    /\ pCalls[1].out = <<>> /\ pCalls[2].out = <<>>

\* C15 (as claimed): for an audit line with a customer field and a recognized
\* verb the parser produces exactly one event: its tenant is the customer
\* token, its type the one fixed by the verb, its timestamp the raw timestamp
\* integer-divided by the nanoseconds of a millisecond.
C15_AuditEvent ==
    LET TypeOf(verb) ==
            CASE verb = "create:instance"  -> "instance_created"
              [] verb = "delete:instance"  -> "instance_removed"
              [] verb = "restart:instance" -> "instance_restarted"
              [] verb = "create:tenant"    -> "tenant_signup"
              [] verb = "deploy:solution"  -> "solution_deployed"
              [] verb = "delete:solution"  -> "solution_destroyed"
    IN  \A i \in DOMAIN pCalls :
          \A c \in {"acme", "zed"}, v \in AuditVerbs, r \in {"couchdb/acme-db-1", "web"} :
            (pCalls[i].fn = "gui" /\ pCalls[i].text = AuditText(c, v, r)) =>
                /\ Len(pCalls[i].out) = 1
                /\ pCalls[i].out[1].tenant = c
                /\ pCalls[i].out[1].type = TypeOf(v)
                /\ pCalls[i].out[1].timestamp = pCalls[i].ts \div NsPerMs

C29_DistinctLinesDistinctIds ==
    \A i, j \in DOMAIN pCalls :
        ( /\ pCalls[i].out # <<>> /\ pCalls[j].out # <<>>
          /\ <<pCalls[i].fn, pCalls[i].ts, pCalls[i].text, pCalls[i].line>>
                # <<pCalls[j].fn, pCalls[j].ts, pCalls[j].text, pCalls[j].line>> )
        => pCalls[i].out[1].id # pCalls[j].out[1].id

\* ------------------------------------------------------------------------
\* SpecRange: rangeSeconds and stepForRange
\* ------------------------------------------------------------------------

\* The seconds stepForRange is called with: the multiples of ten minutes up
\* to MaxRangeTicks of them, and the seconds next to each limit.
MaxRangeTicks == 1100

RangeInputs ==
    {600 * k : k \in 0..MaxRangeTicks}
    \cup {b + d : b \in {3600, 21600, 86400, 172800}, d \in {-1, 0, 1}}

\* The labels of the range selector, and labels outside the map.
RangeLabels == {"1h", "6h", "12h", "24h", "48h", "7d", "30d", ""}

RangeInit ==
    /\ \/ \E l \in RangeLabels : rangeCall = [pc |-> "label", label |-> l, secs |-> 0, step |-> 0]
       \/ \E n \in RangeInputs : rangeCall = [pc |-> "secs", label |-> "", secs |-> n, step |-> 0]
    /\ now = NowStart /\ log = {}
    /\ MergeIdle /\ ServerIdle /\ QueryIdle /\ PanelInit /\ InstanceGraphInit /\ ParseIdle /\ GraphIdle

\* const rangeSecs = rangeSeconds(range)
RangeSecondsCall ==
    /\ rangeCall.pc = "label"
    /\ rangeCall' = [rangeCall EXCEPT !.pc = "secs", !.secs = rangeSeconds(rangeCall.label)]
    /\ UNCHANGED <<worldVars, mergeVars, serverVars, queryVars, panelVars, uiVars, igVars, parseVars, graphVars>>

\* const step = stepForRange(rangeSecs)
StepForRangeCall ==
    /\ rangeCall.pc = "secs"
    /\ rangeCall' = [rangeCall EXCEPT !.pc = "done", !.step = stepForRange(rangeCall.secs)]
    /\ UNCHANGED <<worldVars, mergeVars, serverVars, queryVars, panelVars, uiVars, igVars, parseVars, graphVars>>

RangeNext == RangeSecondsCall \/ StepForRangeCall

SpecRange == RangeInit /\ [][RangeNext]_vars

\* C17: stepForRange gives 60 up to 3600 seconds, 300 up to 21600, 600 up to
\* 86400, 1200 up to 172800 and 3600 above; through rangeSeconds the labels
\* give 1h -> 60, 6h -> 300, 12h -> 600, 24h -> 600, 48h -> 1200, 7d -> 3600.
C17_StepForRange ==
    rangeCall.pc = "done" =>
        /\ rangeCall.step =
             (CASE rangeCall.secs <= 3600   -> 60
                [] rangeCall.secs > 3600 /\ rangeCall.secs <= 21600 -> 300
                [] rangeCall.secs > 21600 /\ rangeCall.secs <= 86400 -> 600
                [] rangeCall.secs > 86400 /\ rangeCall.secs <= 172800 -> 1200
                [] OTHER -> 3600)
        /\ rangeCall.label = "1h"  => rangeCall.step = 60
        /\ rangeCall.label = "6h"  => rangeCall.step = 300
        /\ rangeCall.label = "12h" => rangeCall.step = 600
        /\ rangeCall.label = "24h" => rangeCall.step = 600
        /\ rangeCall.label = "48h" => rangeCall.step = 1200
        /\ rangeCall.label = "7d"  => rangeCall.step = 3600

\* The step of a range that lies on a limit, reached from its label.
C17_Witness ==
    /\ rangeCall.pc = "done"
    /\ rangeCall.label = "24h" /\ rangeCall.secs = 86400 /\ rangeCall.step = 600


\* ------------------------------------------------------------------------
\* SpecGraph: one request to a metrics route
\* ------------------------------------------------------------------------

\* How many result series the metrics store answers a range query with.
MaxSeries == 2

\* One result of promQueryRange: its label and its [timestamp, text] samples.
PromResult(metric, values) == [metric |-> metric, values |-> values]

Web1 == <<Seg("web", TRUE), Seg("7f9c8d", TRUE)>>
Web2 == <<Seg("web", TRUE), Seg("1a2b3c", TRUE)>>

\* The results the store holds: two ReplicaSets of one deployment, a name
\* without hash, two ReplicaSets of a deployment called constructor, a result
\* without label;
\* samples that are zero, positive, and the text Prometheus sends for a
\* missing value ("NaN").
GraphResults ==
    { PromResult(Web1, << <<10, <<"5">> >> >>),
      PromResult(Web1, << <<10, <<"3">> >>, <<20, <<"0">> >> >>),
      PromResult(Web1, << <<10, <<"N", "a", "N">> >>, <<20, <<"3">> >> >>),
      PromResult(Web2, << <<10, <<"3">> >> >>),
      PromResult(Web2, << <<10, <<"0">> >>, <<20, <<"0">> >> >>),
      PromResult(Web2, << <<10, <<"N", "a", "N">> >> >>),
      PromResult(<<Seg("api", TRUE)>>, << <<10, <<"0">> >> >>),
      PromResult(<<Seg("api", TRUE)>>, << <<10, <<"1", "2">> >> >>),
      PromResult(<<Seg("constructor", TRUE), Seg("5d4f8", TRUE)>>, << <<10, <<"1">> >> >>),
      PromResult(<<Seg("constructor", TRUE), Seg("9a8b7", TRUE)>>, << <<10, <<"2">> >> >>),
      PromResult(<<>>, << <<10, <<"4">> >> >>) }

\* The store answers a `sum by` or `count by` query with one result per label
\* value.
DistinctMetrics(results) ==
    \A i, j \in DOMAIN results : results[i].metric = results[j].metric => i = j

GraphInit ==
    /\ \E route \in GraphRoutes, ns \in {"", "acme"}, range \in {"", "24h"},
          a \in {"success", "non2xx", "reject"},
          results \in {r \in SeqsUpTo(GraphResults, MaxSeries) : DistinctMetrics(r)} :
          gCall = [route |-> route, range |-> range, namespace |-> ns,
                   results |-> results, answer |-> a]
    /\ gOut = GraphPending
    /\ now = NowStart /\ log = {}
    /\ MergeIdle /\ ServerIdle /\ QueryIdle /\ PanelInit /\ InstanceGraphInit /\ ParseIdle /\ RangeIdle

\* The route serves the request.
GraphServe ==
    /\ gOut.st = "pending"
    /\ gOut' = GraphGET(gCall.route, gCall.namespace, gCall.range, gCall.results, gCall.answer)
    /\ UNCHANGED <<gCall, worldVars, mergeVars, serverVars, queryVars, panelVars, uiVars, igVars,
                   parseVars, rangeVars>>

GraphNext == GraphServe

SpecGraph == GraphInit /\ [][GraphNext]_vars


\* The route has answered a request for which the store returned its results.
GraphAnswered == gOut.st = "done" /\ gOut.status = 200 /\ gCall.answer = "success"

\* Every sample of the request's results parses as an integer.
AllSamplesParse ==
    \A i \in DOMAIN gCall.results : \A j \in DOMAIN gCall.results[i].values :
        ~IsNaN(parseIntText(gCall.results[i].values[j][2]))

\* The results of the request under the key the route groups them by.
KeyedResults ==
    IF gCall.route = "graphByPod" THEN TenantKeyed(gCall.results) ELSE DeployKeyed(gCall.results)

RECURSIVE SumOfPairs(_, _)
\* The sum of the samples at the places P = {<<i, j>>} that parse as integers.
SumOfPairs(P, results) ==
    IF P = {} THEN 0
    ELSE LET p == CHOOSE x \in P : TRUE
             v == parseIntText(results[p[1]].values[p[2]][2])
         IN  (IF IsNaN(v) THEN 0 ELSE v) + SumOfPairs(P \ {p}, results)

\* The sum of the raw values that the results grouped under `key` hold at
\* timestamp ts.
RawSum(key, ts) ==
    SumOfPairs({<<i, j>> \in (DOMAIN gCall.results) \X (1..2) :
                   /\ j \in DOMAIN gCall.results[i].values
                   /\ KeyedResults[i].key = key
                   /\ gCall.results[i].values[j][1] = ts}, gCall.results)

\* The timestamps at which the results grouped under `key` hold a sample.
RawTimes(key) ==
    {gCall.results[i].values[j][1] :
        <<i, j>> \in {p \in (DOMAIN gCall.results) \X (1..2) :
                        /\ p[2] \in DOMAIN gCall.results[p[1]].values
                        /\ KeyedResults[p[1]].key = key}}

\* C18 (as claimed), for results whose samples all parse: a series is in the
\* output exactly when one of its samples is greater than zero, and then
\* with all its samples.  In the routes that group, the series are the groups
\* and their samples the sums.
C18_SeriesIffPositive ==
    (GraphAnswered /\ AllSamplesParse) =>
        IF gCall.route \in {"graph", "drilldownByTenant"}
        THEN \A i \in DOMAIN gCall.results :
                LET data == [j \in DOMAIN gCall.results[i].values |->
                                [time |-> gCall.results[i].values[j][1] * 1000,
                                 value |-> parseIntText(gCall.results[i].values[j][2])]]
                IN  (\E j \in DOMAIN data : data[j].value > 0)
                        <=> (\E k \in DOMAIN gOut.series : gOut.series[k].data = data)
        ELSE \A i \in DOMAIN gCall.results :
                (gCall.route = "graphByPod" => KeyedResults[i].key # "") =>
                    ( (\E ts \in RawTimes(KeyedResults[i].key) : RawSum(KeyedResults[i].key, ts) > 0)
                        <=> (\E k \in DOMAIN gOut.series : gOut.series[k].name = KeyedResults[i].key) )

\* C19 (as claimed), for results whose samples all parse: in the drill-down
\* route the raw series whose names are equal after the hash is stripped are
\* one series of the output, and its value at each timestamp is the sum of
\* their values at that timestamp.
C19_MergedSum ==
    (GraphAnswered /\ AllSamplesParse /\ gCall.route = "drilldown") =>
        \A i, j \in DOMAIN gCall.results :
            ( /\ i < j
              /\ KeyedResults[i].key = KeyedResults[j].key
              /\ \E ts \in RawTimes(KeyedResults[i].key) : RawSum(KeyedResults[i].key, ts) > 0 )
            => /\ Cardinality({k \in DOMAIN gOut.series :
                                  gOut.series[k].name = KeyedResults[i].key}) = 1
               /\ \A k \in DOMAIN gOut.series :
                     gOut.series[k].name = KeyedResults[i].key =>
                        /\ {gOut.series[k].data[d].time : d \in DOMAIN gOut.series[k].data}
                              = {1000 * ts : ts \in RawTimes(KeyedResults[i].key)}
                        /\ \A d \in DOMAIN gOut.series[k].data :
                              gOut.series[k].data[d].value * 1000
                                 = 1000 * RawSum(KeyedResults[i].key, gOut.series[k].data[d].time \div 1000)

\* C20 (as claimed): a sample whose text does not parse as an integer yields
\* no data point and leaves the sum at its timestamp as it is without it.
C20_UnparsedExcluded ==
    GraphAnswered =>
        IF gCall.route \in {"graph", "drilldownByTenant"}
        THEN \A k \in DOMAIN gOut.series : \A d \in DOMAIN gOut.series[k].data :
                ~IsNaN(gOut.series[k].data[d].value)
        ELSE \A k \in DOMAIN gOut.series : \A d \in DOMAIN gOut.series[k].data :
                gOut.series[k].data[d].value
                    = RawSum(gOut.series[k].name, gOut.series[k].data[d].time \div 1000)


\* ------------------------------------------------------------------------
\* SpecFeed: the feed on display, the mute list and the notifications, with
\* the initial load and live polls going on and new lines reaching the
\* backend
\* ------------------------------------------------------------------------

\* The backend of SpecFeed: an audit line of a customer and one of an
\* internal tenant before NowStart; and, written at NowStart (a poll sees them
\* once the clock has reached the next second), a second audit line of the
\* customer and a structured-action line of the internal tenant.
FeedLines ==
    { Line("gui", Ago(MsPerSec + 1, 0), "acme", "create:instance", "db/a1", "absent", "ok"),
      Line("gui", Ago(MsPerSec, 0), "eyevinn", "create:instance", "db/e1", "absent", "ok"),
      Line("gui", Ago(0, 0), "acme", "delete:instance", "db/a1", "absent", "ok"),
      Line("mcp", Ago(0, 0), "eyevinn", "create-my-app", "app1", "true", "ok") }

FeedInit ==
    /\ now = NowStart
    /\ log = FeedLines
    /\ PanelInit /\ InstanceGraphInit
    /\ MergeIdle /\ ServerIdle /\ QueryIdle /\ ParseIdle /\ GraphIdle /\ RangeIdle

\* The tenants of the events in the list.
TenantsOf(evs) == {evs[i].tenant : i \in DOMAIN evs}

\* The Mute button of an event of the list is clicked (EventItem calls
\* onMute(event.tenant)); a second click can come before the event has left
\* the display.
HandleMute(tenant) ==
    /\ tenant \in TenantsOf(events)
    /\ mutedTenants' = handleMute(mutedTenants, tenant)
    /\ UNCHANGED <<hideInternal, isMuted, notified>>
    /\ UNCHANGED <<worldVars, mergeVars, serverVars, queryVars, parseVars, graphVars, rangeVars, panelVars, igVars>>

\* A tenant's button in the MutedTenants bar is clicked.
HandleUnmute(tenant) ==
    /\ Includes(mutedTenants, tenant)
    /\ mutedTenants' = handleUnmute(mutedTenants, tenant)
    /\ UNCHANGED <<hideInternal, isMuted, notified>>
    /\ UNCHANGED <<worldVars, mergeVars, serverVars, queryVars, parseVars, graphVars, rangeVars, panelVars, igVars>>

\* The "Hide internal" checkbox: onChange={(e) => setHideInternal(e.target.checked)}
SetHideInternal ==
    /\ hideInternal' = ~hideInternal
    /\ UNCHANGED <<mutedTenants, isMuted, notified>>
    /\ UNCHANGED <<worldVars, mergeVars, serverVars, queryVars, parseVars, graphVars, rangeVars, panelVars, igVars>>

\* The sound button: setIsMuted((prev) => !prev)
ToggleSound ==
    /\ isMuted' = ~isMuted
    /\ UNCHANGED <<mutedTenants, hideInternal, notified>>
    /\ UNCHANGED <<worldVars, mergeVars, serverVars, queryVars, parseVars, graphVars, rangeVars, panelVars, igVars>>

FeedTenants == {l.who : l \in FeedLines}

\* The interval fires while no request is in flight.
FeedPoll == calls = <<>> /\ PollStart

FeedNext ==
    \/ Tick
    \/ FetchInitialStart
    \/ \E i \in 1..MaxInFlight : ServerAnswer(i, AllSuccess)
    \/ \E i \in 1..MaxInFlight : FetchInitialDone(i)
    \/ FeedPoll
    \/ \E i \in 1..MaxInFlight : PollDone(i)
    \/ \E t \in FeedTenants : HandleMute(t)
    \/ \E t \in FeedTenants : HandleUnmute(t)
    \/ SetHideInternal
    \/ ToggleSound

SpecFeed == FeedInit /\ [][FeedNext]_vars

\* The positions of the list whose event is to be on display.
FeedKeep ==
    {i \in DOMAIN events :
        /\ \A m \in DOMAIN mutedTenants : mutedTenants[m] # events[i].tenant
        /\ ~(hideInternal /\ events[i].tenant \in INTERNAL_TENANTS)}

\* C21: the feed on display is the event list restricted to the events whose
\* tenant is not muted (and not internal while hide-internal is on), in the
\* order of the list; the muted list never holds a tenant twice; a step that
\* changes the muted list changes neither the event list, nor the cursors, nor
\* hasMore; and after an unmute every event of that tenant is on display
\* (unless hidden as internal).
C21_FeedAndMute ==
    /\ [](LET feed == filteredEvents(events, mutedTenants, hideInternal)
          IN  /\ Len(feed) = Cardinality(FeedKeep)
              /\ \A k \in DOMAIN feed :
                    \E i \in FeedKeep :
                       /\ Cardinality({j \in FeedKeep : j <= i}) = k
                       /\ feed[k] = events[i])
    /\ [](\A a, b \in DOMAIN mutedTenants : mutedTenants[a] = mutedTenants[b] => a = b)
    /\ [][ mutedTenants' # mutedTenants =>
              UNCHANGED <<events, lastEventTimeRef, oldestEventTimeRef, hasMore>> ]_vars
    /\ [][ \A t \in FeedTenants :
              HandleUnmute(t) =>
                 \A i \in DOMAIN events' :
                    (events'[i].tenant = t /\ ~(hideInternal' /\ t \in INTERNAL_TENANTS))
                       => \E k \in DOMAIN filteredEvents(events', mutedTenants', hideInternal') :
                             filteredEvents(events', mutedTenants', hideInternal')[k] = events'[i] ]_vars

\* The list holds events of the customer and of the internal tenant, a poll
\* has added to it, the customer is muted behind the internal tenant (which
\* was muted first), hide-internal is off and nothing is on display.
C21_Witness ==
    /\ Len(events) >= 3
    /\ mutedTenants = <<"eyevinn", "acme">>
    /\ ~hideInternal
    /\ filteredEvents(events, mutedTenants, hideInternal) = <<>>

\* C30 (as claimed): the events a run of pollNew notifies of, or pings for,
\* were not in the list before, and their tenants are neither muted nor hidden
\* as internal when the notification fires, also when the mute or the
\* hide-internal switch came while the poll request was in flight.
C30_NotifyOnlyUnmuted ==
    [][ \A i \in 1..MaxInFlight :
           PollDone(i) =>
              /\ \A k \in DOMAIN notified'.events :
                    /\ notified'.events[k].id \notin IdsOf(events)
                    /\ Shown(notified'.events[k], mutedTenants', hideInternal')
              /\ notified'.ping => notified'.events # <<>> ]_vars


\* ------------------------------------------------------------------------
\* SpecLive: the panel as in Spec, on a backend that new lines reach while
\* requests are in flight, with fetches that are rejected
\* ------------------------------------------------------------------------

\* The fetch promise of call i rejects (the network fails): the callback's
\* await throws.
FetchReject(i) ==
    /\ i \in DOMAIN calls
    /\ calls[i].st = "sent"
    /\ calls' = [calls EXCEPT ![i].st = "answered",
                              ![i].resp = Response("rejected", <<>>, NoParam, NoParam, FALSE)]
    /\ UNCHANGED <<events, hasMore, loading, loadingOlder, error, lastEventTimeRef,
                   oldestEventTimeRef, rendered, mounted, overlapSeen>>
    /\ UNCHANGED <<worldVars, mergeVars, serverVars, queryVars, parseVars, graphVars, rangeVars, uiVars, igVars>>

\* How the backend answers the four queries of one request in SpecLive: all
\* with success, or one not at all (the route answers 500).
LiveProfiles ==
    { AllSuccess,
      [AllSuccess EXCEPT !["plan"] = "reject"] }

\* An audit line of the chunk before the newest one.
OlderLine ==
    Line("gui", Ago(CHUNK_MS + MsPerSec, 0), "bolt", "delete:instance", "db/b1", "absent", "ok")

LiveInit ==
    /\ now = NowStart
    /\ log = FeedLines \cup {OlderLine}
    /\ PanelInit /\ InstanceGraphInit
    /\ MergeIdle /\ ServerIdle /\ QueryIdle /\ ParseIdle /\ GraphIdle /\ RangeIdle

LiveNext ==
    \/ Tick
    \/ FetchInitialStart
    \/ \E i \in 1..MaxInFlight, a \in LiveProfiles : ServerAnswer(i, a)
    \/ \E i \in 1..MaxInFlight : FetchReject(i)
    \/ \E i \in 1..MaxInFlight : FetchInitialDone(i)
    \/ PollStart
    \/ \E i \in 1..MaxInFlight : PollDone(i)
    \/ FetchOlderStart
    \/ \E i \in 1..MaxInFlight : FetchOlderDone(i)
    \/ Render

SpecLive == LiveInit /\ [][LiveNext]_vars

\* C24 (as claimed): at most one fetchOlder request is in flight.
C24_OneBackfillInFlight ==
    Cardinality({i \in DOMAIN calls : calls[i].fn = "older"}) <= 1

\* C26 (as claimed): the panel's event list is ordered by non-increasing
\* timestamp.
C26_ListNewestFirst ==
    \A i, j \in DOMAIN events : i < j => events[i].timestamp >= events[j].timestamp

\* C27: a live poll or a backfill whose request fails (the route answers 500,
\* or the fetch is rejected) leaves the event list, both cursors and hasMore
\* as they were, and the failed backfill sets loadingOlder to false.
C27_FailedRequestNoEffect ==
    [][ \A i \in 1..MaxInFlight :
           /\ (PollDone(i) /\ calls[i].resp.kind \in {"err", "rejected"}) =>
                 UNCHANGED <<events, lastEventTimeRef, oldestEventTimeRef, hasMore>>
           /\ (FetchOlderDone(i) /\ calls[i].resp.kind \in {"err", "rejected"}) =>
                 /\ UNCHANGED <<events, lastEventTimeRef, oldestEventTimeRef, hasMore>>
                 /\ loadingOlder' = FALSE ]_vars

\* A backfill has just ended (the observer's fetchOlder still holds
\* loadingOlder = true) and it had failed: the audit line of the older chunk,
\* which every page answered with success brings, is not in the list; the
\* list, the cursor and hasMore are those of the initial load.
C27_Witness ==
    /\ ~loading /\ ~error /\ calls = <<>>
    /\ ~loadingOlder /\ rendered.loadingOlder
    /\ hasMore /\ Truthy(oldestEventTimeRef)
    /\ events # <<>>
    /\ \A i \in DOMAIN events : events[i].tenant # OlderLine.who

\* C28: a poll request is sent only while the live cursor is set; the cursor
\* is first set by an initial load that succeeded; so a poll request is in
\* flight only after a successful initial load, and after a failed initial
\* load the cursor is not set and no poll request exists.
C28_PollOnlyAfterInitialLoad ==
    /\ [][ (Len(calls') > Len(calls) /\ calls'[Len(calls')].fn = "poll") =>
              (Truthy(lastEventTimeRef) /\ calls'[Len(calls')].req.since = lastEventTimeRef) ]_vars
    /\ [][ (~Truthy(lastEventTimeRef) /\ Truthy(lastEventTimeRef')) =>
              \E i \in DOMAIN calls :
                 calls[i].fn = "initial" /\ calls[i].resp.kind = "ok" /\ calls' = RemoveAt(calls, i) ]_vars
    /\ []((\E i \in DOMAIN calls : calls[i].fn = "poll") => (mounted /\ ~loading /\ ~error))
    /\ []((~loading /\ error) =>
             (~Truthy(lastEventTimeRef) /\ \A i \in DOMAIN calls : calls[i].fn # "poll"))

\* Two poll requests are in flight, sent with the cursor that the successful
\* initial load had set.
C28_Witness ==
    /\ ~loading /\ ~error
    /\ Len(calls) = 2
    /\ \A i \in DOMAIN calls : calls[i].fn = "poll" /\ calls[i].req.since = lastEventTimeRef


\* ------------------------------------------------------------------------
\* SpecDrill: InstanceGraph's drill-down: a tenant is soloed, the range is
\* changed, the drill-down requests are answered in any order
\* ------------------------------------------------------------------------

\* How many drill-down requests are in flight at most.
MaxDrillInFlight == 2

\* The range buttons pressed (two of RANGES) and the tenants of the sidebar.
DrillRanges == {"6h", "24h"}
DrillTenants == {"acme", "bolt"}

\* What the metrics store holds for a namespace over a range: one ReplicaSet,
\* its deployment named after the namespace's service, its sample after the
\* range.
DrillStore(namespace, range) ==
    <<PromResult(<<Seg(IF namespace = "acme" THEN "web" ELSE "db", TRUE), Seg("7f9c8d", TRUE)>>,
                 << <<10, IF range = "6h" THEN <<"1">> ELSE <<"2">> >> >>)>>

\* fetch(`/api/instances/drilldown?namespace=...&range=...`) in flight.
DrillCall(namespace, range) ==
    [namespace |-> namespace, range |-> range, st |-> "sent", resp |-> GraphPending]

\* The effect on [soloedTenant, range, fetchDrilldown], run after a commit
\* that changed one of them: fetchDrilldown(soloedTenant, range) up to its
\* await, or the two resets.
DrilldownEffect(tenant, range) ==
    IF tenant # ""
    THEN /\ loadingDrilldown' = TRUE
         /\ ddCalls' = Append(ddCalls, DrillCall(tenant, range))
         /\ UNCHANGED <<drilldownSeries, drilldownOf>>
    ELSE /\ drilldownSeries' = <<>>
         /\ drilldownOf' = NoDrilldown
         /\ UNCHANGED <<loadingDrilldown, ddCalls>>

\* A tenant of the sidebar is clicked (the sidebar has onSelect only outside
\* drill-down mode): setSoloedTenant(prev => prev === namespace ? null : namespace)
HandleTenantSelect(namespace) ==
    /\ soloedTenant = ""
    /\ Len(ddCalls) < MaxDrillInFlight
    /\ soloedTenant' = (IF soloedTenant = namespace THEN "" ELSE namespace)
    /\ DrilldownEffect(soloedTenant', rangeSel)
    /\ UNCHANGED rangeSel
    /\ UNCHANGED <<worldVars, mergeVars, serverVars, queryVars, parseVars, graphVars, rangeVars, panelVars, uiVars>>

\* The back button: setSoloedTenant(null)
DrillBack ==
    /\ soloedTenant # ""
    /\ soloedTenant' = ""
    /\ DrilldownEffect("", rangeSel)
    /\ UNCHANGED rangeSel
    /\ UNCHANGED <<worldVars, mergeVars, serverVars, queryVars, parseVars, graphVars, rangeVars, panelVars, uiVars>>

\* A range button: setRange(r).  The same range again renders nothing anew.
SetRange(r) ==
    /\ r # rangeSel
    /\ Len(ddCalls) < MaxDrillInFlight
    /\ rangeSel' = r
    /\ IF soloedTenant # "" THEN DrilldownEffect(soloedTenant, r)
       ELSE UNCHANGED <<drilldownSeries, drilldownOf, loadingDrilldown, ddCalls>>
    /\ UNCHANGED soloedTenant
    /\ UNCHANGED <<worldVars, mergeVars, serverVars, queryVars, parseVars, graphVars, rangeVars, panelVars, uiVars>>

\* The drill-down route answers request i, the metrics store answering as
\* `answer` says.
DrillAnswer(i, answer) ==
    /\ i \in DOMAIN ddCalls
    /\ ddCalls[i].st = "sent"
    /\ ddCalls' = [ddCalls EXCEPT ![i].st = "answered",
                                  ![i].resp = GraphGET("drilldown", ddCalls[i].namespace,
                                                       ddCalls[i].range,
                                                       DrillStore(ddCalls[i].namespace, ddCalls[i].range),
                                                       answer)]
    /\ UNCHANGED <<rangeSel, soloedTenant, drilldownSeries, loadingDrilldown, drilldownOf>>
    /\ UNCHANGED <<worldVars, mergeVars, serverVars, queryVars, parseVars, graphVars, rangeVars, panelVars, uiVars>>

\* fetchDrilldown after its await: setDrilldownSeries(data.series || []), or
\* the catch block's setDrilldownSeries([]); finally setLoadingDrilldown(false).
FetchDrilldownDone(i) ==
    /\ i \in DOMAIN ddCalls
    /\ ddCalls[i].st = "answered"
    /\ drilldownSeries' = (IF ddCalls[i].resp.status = 200 THEN ddCalls[i].resp.series ELSE <<>>)
    /\ drilldownOf' = [namespace |-> ddCalls[i].namespace, range |-> ddCalls[i].range]
    /\ loadingDrilldown' = FALSE
    /\ ddCalls' = RemoveAt(ddCalls, i)
    /\ UNCHANGED <<rangeSel, soloedTenant>>
    /\ UNCHANGED <<worldVars, mergeVars, serverVars, queryVars, parseVars, graphVars, rangeVars, panelVars, uiVars>>

DrillInit ==
    /\ now = NowStart /\ log = {}
    /\ InstanceGraphInit /\ PanelInit
    /\ MergeIdle /\ ServerIdle /\ QueryIdle /\ ParseIdle /\ GraphIdle /\ RangeIdle

DrillNext ==
    \/ \E t \in DrillTenants : HandleTenantSelect(t)
    \/ DrillBack
    \/ \E r \in DrillRanges : SetRange(r)
    \/ \E i \in 1..MaxDrillInFlight, a \in {"success", "non2xx", "reject"} : DrillAnswer(i, a)
    \/ \E i \in 1..MaxDrillInFlight : FetchDrilldownDone(i)

SpecDrill == DrillInit /\ [][DrillNext]_vars

\* C25 (as claimed): in drill-down mode with no drill-down request in flight,
\* the series InstanceGraph holds are the response to the request for the
\* soloed tenant and the selected range.
C25_DrilldownIsCurrent ==
    (soloedTenant # "" /\ ddCalls = <<>>) =>
        drilldownOf = [namespace |-> soloedTenant, range |-> rangeSel]

====
